---- MODULE Spec2Model ----
(***************************************************************************)
(* Model of the SSL monitor's alert engine and webhook dispatcher          *)
(* (ssl-monitor/api/alert_service.py) and of the checker it consumes.      *)
(*                                                                         *)
(* Time is counted in whole hours.  Text is modelled by what the code      *)
(* reads from it: a URL by the parts urlparse splits it into, an address   *)
(* by its octets, a message by its sequence of pieces.                     *)
(***************************************************************************)
EXTENDS Integers, Sequences, FiniteSets, TLC

VARIABLES
    \* ---- alert engine (database tables and the clock) ----
    now,            \* datetime.utcnow(), in hours
    alerts,         \* table "alerts": sequence of rows, id = position
    ssl_checks,     \* table "ssl_checks": sequence of rows, id = position
    monitors,       \* table "monitors": (user, domain) -> row or NoRow
    alert_configs,  \* table "alert_configs": user -> row or NoRow
    posts,          \* HTTP POSTs issued by the last operation
    ret,            \* what the last operation was and what it returned
    \* ---- webhook dispatcher, as a function of its inputs ----
    webhook_url,    \* the URL handed to the dispatcher
    dns,            \* what getaddrinfo answers for the URL's host name
    wh,             \* last dispatcher call and its result
    \* ---- expiry rule, as a function of its inputs ----
    ex,             \* input and result of check_certificate_expiry
    \* ---- two concurrent runs of create_alert ----
    pc,             \* worker -> position in create_alert
    found,          \* worker -> what its dedup query returned
    \* ---- one function of the engine or of the checker, called on its inputs ----
    call            \* the call: its inputs and, once made, its result

vars == << now, alerts, ssl_checks, monitors, alert_configs, posts, ret,
           webhook_url, dns, wh, ex, pc, found, call >>

engineVars == << now, alerts, ssl_checks, monitors, alert_configs, posts, ret >>
webhookVars == << webhook_url, dns, wh >>
raceVars == << pc, found >>

Min(a, b) == IF a <= b THEN a ELSE b

(***************************************************************************)
(* Addresses.  A host text is a record: a DNS-style name, a dotted quad    *)
(* (its four numbers as written) or an IPv6 literal (its eight groups).    *)
(***************************************************************************)
Name(n) == [kind |-> "name", text |-> n, a |-> << >>]
Ip4(o1, o2, o3, o4) == [kind |-> "ip4", text |-> "", a |-> <<o1, o2, o3, o4>>]
Ip6(g1, g2, g8) == [kind |-> "ip6", text |-> "", a |-> <<g1, g2, 0, 0, 0, 0, 0, g8>>]
NoHost == [kind |-> "none", text |-> "", a |-> << >>]

\* str.lower() on the texts the model uses
Lower(s) ==
    CASE s = "LOCALHOST" -> "localhost"
      [] s = "Hooks.Slack.com" -> "hooks.slack.com"
      [] s = "HTTP" -> "http"
      [] s = "HTTPS" -> "https"
      [] OTHER -> s

\* ipaddress.ip_address(ip_str) succeeds (does not raise ValueError)
ip_address_ok(h) ==
    \/ h.kind = "ip4" /\ \A i \in 1..4 : h.a[i] \in 0..255
    \/ h.kind = "ip6"

is_loopback(h) ==
    IF h.kind = "ip4" THEN h.a[1] = 127
    ELSE h.a = <<0, 0, 0, 0, 0, 0, 0, 1>>

is_link_local(h) ==
    IF h.kind = "ip4" THEN h.a[1] = 169 /\ h.a[2] = 254
    ELSE h.a[1] >= 65152 /\ h.a[1] < 65216            \* fe80::/10

is_multicast(h) ==
    IF h.kind = "ip4" THEN h.a[1] >= 224 /\ h.a[1] <= 239
    ELSE h.a[1] >= 65280                              \* ff00::/8

is_reserved(h) ==
    IF h.kind = "ip4" THEN h.a[1] >= 240
    ELSE \/ h.a[1] < 8192                             \* ::/8 .. 1000::/4
         \/ h.a[1] >= 16384 /\ h.a[1] < 64512         \* 4000::/3 .. f800::/6
         \/ h.a[1] >= 65024 /\ h.a[1] < 65152         \* fe00::/9

is_private(h) ==
    IF h.kind = "ip4" THEN
        \/ h.a[1] = 0
        \/ h.a[1] = 10
        \/ h.a[1] = 127
        \/ h.a[1] = 169 /\ h.a[2] = 254
        \/ h.a[1] = 172 /\ h.a[2] >= 16 /\ h.a[2] <= 31
        \/ h.a[1] = 192 /\ h.a[2] = 0 /\ h.a[3] = 0 /\ h.a[4] <= 7
        \/ h.a[1] = 192 /\ h.a[2] = 0 /\ h.a[3] = 0 /\ h.a[4] \in {170, 171}
        \/ h.a[1] = 192 /\ h.a[2] = 0 /\ h.a[3] = 2
        \/ h.a[1] = 192 /\ h.a[2] = 168
        \/ h.a[1] = 198 /\ h.a[2] \in {18, 19}
        \/ h.a[1] = 198 /\ h.a[2] = 51 /\ h.a[3] = 100
        \/ h.a[1] = 203 /\ h.a[2] = 0 /\ h.a[3] = 113
        \/ h.a[1] >= 240
    ELSE
        \/ h.a = <<0, 0, 0, 0, 0, 0, 0, 1>>           \* ::1
        \/ h.a = <<0, 0, 0, 0, 0, 0, 0, 0>>           \* ::
        \/ h.a[1] = 256 /\ h.a[2] = 0 /\ h.a[3] = 0 /\ h.a[4] = 0   \* 100::/64
        \/ h.a[1] = 8193 /\ h.a[2] < 512              \* 2001::/23
        \/ h.a[1] = 8193 /\ h.a[2] = 3512             \* 2001:db8::/32
        \/ h.a[1] >= 64512 /\ h.a[1] < 65024          \* fc00::/7
        \/ h.a[1] >= 65152 /\ h.a[1] < 65216          \* fe80::/10

\* a mutant of _is_private_ip: a text that is no IP address counts as public
IsPrivateIpInvalidPublic(h) ==
    IF ip_address_ok(h)
    THEN is_private(h) \/ is_loopback(h) \/ is_link_local(h)
         \/ is_reserved(h) \/ is_multicast(h)
    ELSE FALSE

_is_private_ip(h) ==
    IF ip_address_ok(h)
    THEN is_private(h) \/ is_loopback(h) \/ is_link_local(h)
         \/ is_reserved(h) \/ is_multicast(h)
    ELSE TRUE         \* except ValueError: return True

(***************************************************************************)
(* Webhook dispatcher.  A URL text is a record of the parts urlparse       *)
(* reads: kind "none" is a missing URL, "empty" the empty string,          *)
(* "bad_bracket" a text with an unclosed "[" (urlparse raises ValueError). *)
(***************************************************************************)
Url(scheme, host) == [kind |-> "url", scheme |-> scheme, host |-> host]
NoUrl == [kind |-> "none", scheme |-> "", host |-> NoHost]
EmptyUrl == [kind |-> "empty", scheme |-> "", host |-> NoHost]
BadBracketUrl == [kind |-> "bad_bracket", scheme |-> "http", host |-> NoHost]

\* urllib.parse.urlparse: the scheme and the hostname come back in lower case
urlparse(u) ==
    [scheme |-> Lower(u.scheme),
     hostname |-> [u.host EXCEPT !.text = Lower(u.host.text)]]

\* parsed.hostname.lower() in ['localhost', '127.0.0.1', '::1']
IsLocalhostText(h) ==
    \/ h.kind = "name" /\ Lower(h.text) = "localhost"
    \/ h.kind = "ip4" /\ h.a = <<127, 0, 0, 1>>
    \/ h.kind = "ip6" /\ h.a = <<0, 0, 0, 0, 0, 0, 0, 1>>

\* socket.getaddrinfo(hostname, None): a numeric host answers itself, a name
\* gets the resolver's answer d (failed = socket.gaierror)
getaddrinfo(h, d) ==
    IF ip_address_ok(h) THEN [failed |-> FALSE, addrs |-> <<h>>] ELSE d

\* a mutant of _validate_webhook_url: the scheme is not tested
ValidateWebhookUrlAnyScheme(u, d) ==
    IF u.kind # "url" THEN FALSE
    ELSE LET parsed == urlparse(u) IN
         IF parsed.hostname.kind = "none" THEN FALSE
         ELSE IF IsLocalhostText(parsed.hostname) THEN FALSE
         ELSE IF _is_private_ip(parsed.hostname) THEN FALSE
         ELSE LET addr_info == getaddrinfo(parsed.hostname, d) IN
              IF addr_info.failed THEN FALSE
              ELSE \A i \in 1..Len(addr_info.addrs) :
                       ~ _is_private_ip(addr_info.addrs[i])

_validate_webhook_url(u, d) ==
    IF u.kind \in {"none", "empty"} THEN FALSE               \* not webhook_url
    ELSE IF u.kind = "bad_bracket" THEN FALSE                \* except Exception
    ELSE LET parsed == urlparse(u) IN
         IF parsed.scheme \notin {"http", "https"} THEN FALSE
         ELSE IF parsed.hostname.kind = "none" THEN FALSE
         ELSE IF IsLocalhostText(parsed.hostname) THEN FALSE
         ELSE IF _is_private_ip(parsed.hostname) THEN FALSE
         ELSE LET addr_info == getaddrinfo(parsed.hostname, d) IN
              IF addr_info.failed THEN FALSE                 \* socket.gaierror
              ELSE \A i \in 1..Len(addr_info.addrs) :
                       ~ _is_private_ip(addr_info.addrs[i])

\* ---- requests.post and its outcomes ----
Response(code) == [kind |-> "response", status |-> code, exc |-> ""]
Raises(e) == [kind |-> "exception", status |-> 0, exc |-> e]
NoOutcome == [kind |-> "none", status |-> 0, exc |-> ""]

\* the classes of requests.exceptions an exception of class e is an instance of
ExcBases(e) ==
    CASE e = "Timeout" -> {"Timeout", "RequestException"}
      [] e = "ReadTimeout" -> {"ReadTimeout", "Timeout", "RequestException"}
      [] e = "ConnectTimeout" ->
             {"ConnectTimeout", "ConnectionError", "Timeout", "RequestException"}
      [] e = "ConnectionError" -> {"ConnectionError", "RequestException"}
      [] e = "SSLError" -> {"SSLError", "ConnectionError", "RequestException"}
      [] e = "ProxyError" -> {"ProxyError", "ConnectionError", "RequestException"}
      [] OTHER -> {e, "RequestException"}

NoError == [some |-> FALSE, text |-> "", arg |-> ""]
Error(text, arg) == [some |-> TRUE, text |-> text, arg |-> arg]

SuccessCodes == {200, 201, 202, 204}

WebhookResult(success, error, status_code, posted, raised) ==
    [success |-> success, error |-> error, status_code |-> status_code,
     posted |-> posted, raised |-> raised]

NoResult == WebhookResult(FALSE, NoError, << >>, FALSE, FALSE)

\* a mutant of the try block: every 2xx status counts as a success
PostAndReportAny2xx(o) ==
    IF o.kind = "response" THEN
        LET success == o.status >= 200 /\ o.status < 300 IN
        WebhookResult(success,
            IF success THEN NoError
            ELSE Error("Webhook returned status code ", ToString(o.status)),
            <<o.status>>, TRUE, FALSE)
    ELSE IF "Timeout" \in ExcBases(o.exc) THEN
        WebhookResult(FALSE,
            Error("Webhook request timed out after 10 seconds", ""),
            << >>, TRUE, FALSE)
    ELSE IF "ConnectionError" \in ExcBases(o.exc) THEN
        WebhookResult(FALSE, Error("Failed to connect to webhook URL: ", o.exc),
            << >>, TRUE, FALSE)
    ELSE WebhookResult(FALSE, Error("Failed to send webhook: ", o.exc),
            << >>, TRUE, FALSE)

\* the try block of send_webhook_notification_detailed, the POST's outcome o
PostAndReport(o) ==
    IF o.kind = "response" THEN
        LET success == o.status \in SuccessCodes IN
        WebhookResult(success,
            IF success THEN NoError
            ELSE Error("Webhook returned status code ", ToString(o.status)),
            <<o.status>>, TRUE, FALSE)
    ELSE IF "Timeout" \in ExcBases(o.exc) THEN
        WebhookResult(FALSE,
            Error("Webhook request timed out after 10 seconds", ""),
            << >>, TRUE, FALSE)
    ELSE IF "ConnectionError" \in ExcBases(o.exc) THEN
        WebhookResult(FALSE, Error("Failed to connect to webhook URL: ", o.exc),
            << >>, TRUE, FALSE)
    ELSE IF "RequestException" \in ExcBases(o.exc) THEN
        WebhookResult(FALSE, Error("Failed to send webhook: ", o.exc),
            << >>, TRUE, FALSE)
    ELSE WebhookResult(FALSE, NoError, << >>, TRUE, TRUE)     \* propagates

\* a mutant of send_webhook_notification_detailed: the POST is made before the
\* URL is validated
SendWebhookPostFirst(u, d, o) ==
    IF u.kind \in {"none", "empty"} THEN
        WebhookResult(FALSE, Error("No webhook URL provided", ""), << >>, FALSE, FALSE)
    ELSE IF ~ _validate_webhook_url(u, d) THEN
        WebhookResult(FALSE,
            Error("Invalid or unsafe webhook URL. URL must use http/https scheme and cannot point to private/local IP addresses.", ""),
            << >>, TRUE, FALSE)
    ELSE PostAndReport(o)

send_webhook_notification_detailed(u, d, o) ==
    IF u.kind \in {"none", "empty"} THEN
        WebhookResult(FALSE, Error("No webhook URL provided", ""), << >>, FALSE, FALSE)
    ELSE IF ~ _validate_webhook_url(u, d) THEN
        WebhookResult(FALSE,
            Error("Invalid or unsafe webhook URL. URL must use http/https scheme and cannot point to private/local IP addresses.", ""),
            << >>, FALSE, FALSE)
    ELSE PostAndReport(o)

send_webhook_notification(u, d, o) ==
    send_webhook_notification_detailed(u, d, o).success

(***************************************************************************)
(* The dispatcher as a function of its inputs: any URL of the sample, any  *)
(* resolver answer, any outcome of the POST.                               *)
(***************************************************************************)
MaxAddrs == 2

SampleSchemes == {"http", "https", "HTTPS", "ftp", ""}

PublicAddrs == {Ip4(8, 8, 8, 8), Ip4(1, 1, 1, 1), Ip6(8193, 18528, 34952)}

PrivateAddrs ==
    {Ip4(10, 0, 0, 5), Ip4(127, 0, 0, 1), Ip4(172, 16, 0, 1), Ip4(192, 168, 1, 1),
     Ip4(169, 254, 1, 1), Ip4(224, 0, 0, 1), Ip4(240, 0, 0, 1),
     Ip6(0, 0, 1), Ip6(65152, 0, 1), Ip6(64768, 0, 1), Ip6(65282, 0, 1)}

\* texts that are no IP address: a quad with a number above 255, and a name
JunkAddrs == {Ip4(999, 1, 1, 1), Name("not-an-ip")}

SampleNames == {Name("localhost"), Name("LOCALHOST"), Name("hooks.slack.com"),
                Name("Hooks.Slack.com"), Name("x.com")}

SampleHosts == {NoHost} \cup SampleNames \cup PublicAddrs \cup PrivateAddrs
               \cup {Ip4(999, 1, 1, 1)}

SampleUrls == {NoUrl, EmptyUrl, BadBracketUrl}
              \cup {Url(sc, h) : sc \in SampleSchemes, h \in SampleHosts}

ResolvedAddrs == {Ip4(8, 8, 8, 8), Ip6(8193, 18528, 34952), Ip4(10, 0, 0, 5),
                  Ip6(65152, 0, 1), Name("not-an-ip")}

AddrSeqs == UNION {[1..n -> ResolvedAddrs] : n \in 1..MaxAddrs}

DnsAnswers == {[failed |-> TRUE, addrs |-> << >>]}
              \cup {[failed |-> FALSE, addrs |-> s] : s \in AddrSeqs}

SampleStatuses == {200, 201, 202, 204, 203, 206, 301, 400, 404, 500}

SampleExceptions == {"Timeout", "ReadTimeout", "ConnectTimeout", "ConnectionError",
                     "SSLError", "ProxyError", "TooManyRedirects", "InvalidURL",
                     "ChunkedEncodingError", "RequestException"}

PostOutcomes == {Response(c) : c \in SampleStatuses}
                \cup {Raises(e) : e \in SampleExceptions}

WhInit == [op |-> "init", valid |-> FALSE, res |-> NoResult, outcome |-> NoOutcome]

\* the variables a specification does not use stay at these values
EngineIdle ==
    /\ now = 0
    /\ alerts = << >>
    /\ ssl_checks = << >>
    /\ monitors = << >>
    /\ alert_configs = << >>
    /\ posts = << >>
    /\ ret = << >>

WebhookIdle ==
    /\ webhook_url = NoUrl
    /\ dns = [failed |-> TRUE, addrs |-> << >>]
    /\ wh = WhInit

ExpiryIdle == ex = << >>

CallIdle == call = << >>

RaceIdle ==
    /\ pc = << >>
    /\ found = << >>

\* the resolver is asked only about a host that is no numeric address
InitWebhook ==
    /\ webhook_url \in SampleUrls
    /\ dns \in IF webhook_url.host.kind = "name" THEN DnsAnswers
               ELSE {[failed |-> TRUE, addrs |-> << >>]}
    /\ wh = WhInit
    /\ EngineIdle
    /\ ExpiryIdle
    /\ RaceIdle
    /\ CallIdle

\* a call of _validate_webhook_url(webhook_url)
ValidateWebhookUrl ==
    /\ wh.op = "init"
    /\ wh' = [op |-> "validate", valid |-> _validate_webhook_url(webhook_url, dns),
              res |-> NoResult, outcome |-> NoOutcome]
    /\ UNCHANGED << webhook_url, dns, ex, call >>
    /\ UNCHANGED engineVars
    /\ UNCHANGED raceVars

\* a call of send_webhook_notification_detailed(webhook_url, alert_data); the
\* network decides the POST's outcome o
SendWebhookNotificationDetailed ==
    \E o \in PostOutcomes :
        LET r == send_webhook_notification_detailed(webhook_url, dns, o) IN
        /\ wh.op = "init"
        /\ wh' = [op |-> "send", valid |-> _validate_webhook_url(webhook_url, dns),
                  res |-> r, outcome |-> IF r.posted THEN o ELSE NoOutcome]
        /\ UNCHANGED << webhook_url, dns, ex, call >>
        /\ UNCHANGED engineVars
        /\ UNCHANGED raceVars

NextWebhook == ValidateWebhookUrl \/ SendWebhookNotificationDetailed

SpecWebhook == InitWebhook /\ [][NextWebhook]_vars

(***************************************************************************)
(* Claims about the webhook dispatcher (checked under SpecWebhook).        *)
(***************************************************************************)
HostIsDnsName(u) ==
    /\ u.kind = "url"
    /\ u.host.kind = "name"
    /\ Lower(u.host.text) # "localhost"

UnsafeAddr(h) ==
    is_private(h) \/ is_loopback(h) \/ is_link_local(h) \/ is_reserved(h)
    \/ is_multicast(h)

\* C3: _validate_webhook_url returns true for every http/https URL whose host
\* is a DNS name (no IP literal, not localhost) when every address the name
\* resolves to is a public address.
C3_PublicDnsNameAccepted ==
    ( /\ wh.op = "validate"
      /\ HostIsDnsName(webhook_url)
      /\ Lower(webhook_url.scheme) \in {"http", "https"}
      /\ ~ dns.failed
      /\ \A i \in 1..Len(dns.addrs) :
             ip_address_ok(dns.addrs[i]) /\ ~ UnsafeAddr(dns.addrs[i]) )
    => wh.valid

\* C4: _validate_webhook_url returns false for an empty or missing URL, for a
\* scheme other than http/https, for an empty hostname, for the hosts
\* localhost / 127.0.0.1 / ::1, and for an IP-literal host that is private,
\* loopback, link-local, reserved or multicast.
C4_UnsafeUrlRejected ==
    ( /\ wh.op = "validate"
      /\ \/ webhook_url.kind \in {"none", "empty"}
         \/ Lower(webhook_url.scheme) \notin {"http", "https"}
         \/ webhook_url.host.kind = "none"
         \/ webhook_url.host.kind = "name" /\ Lower(webhook_url.host.text) = "localhost"
         \/ webhook_url.host \in {Ip4(127, 0, 0, 1), Ip6(0, 0, 1)}
         \/ /\ webhook_url.host.kind \in {"ip4", "ip6"}
            /\ ip_address_ok(webhook_url.host)
            /\ UnsafeAddr(webhook_url.host) )
    => ~ wh.valid

C4_Witness ==
    /\ wh.op = "validate"
    /\ webhook_url = Url("http", Ip4(10, 0, 0, 5))
    /\ ~ wh.valid

\* C5: for a URL whose host is a DNS name, _validate_webhook_url returns false
\* when at least one resolved address is private, loopback, link-local,
\* reserved or multicast (even if the others are public), when the resolution
\* fails, and when a resolved address cannot be parsed.
C5_AnyUnsafeResolvedAddrRejected ==
    ( /\ wh.op = "validate"
      /\ HostIsDnsName(webhook_url)
      /\ \/ dns.failed
         \/ \E i \in 1..Len(dns.addrs) :
                ~ ip_address_ok(dns.addrs[i]) \/ UnsafeAddr(dns.addrs[i]) )
    => ~ wh.valid

C5_Witness ==
    /\ wh.op = "validate"
    /\ webhook_url = Url("https", Name("hooks.slack.com"))
    /\ dns = [failed |-> FALSE, addrs |-> <<Ip4(8, 8, 8, 8), Ip4(10, 0, 0, 5)>>]
    /\ ~ wh.valid

\* C6: send_webhook_notification_detailed validates before it sends: when the
\* URL is missing or fails _validate_webhook_url, no HTTP POST is issued and
\* the result is success=false with an error text and status_code null.
C6_NoPostWithoutValidUrl ==
    ( /\ wh.op = "send"
      /\ webhook_url.kind \in {"none", "empty"} \/ ~ wh.valid )
    => /\ ~ wh.res.posted
       /\ ~ wh.res.success
       /\ wh.res.error.some
       /\ wh.res.error.text # ""
       /\ wh.res.status_code = << >>
       /\ ~ wh.res.raised

C6_Witness ==
    /\ wh.op = "send"
    /\ webhook_url = Url("http", Ip4(10, 0, 0, 5))
    /\ ~ wh.res.posted
    /\ wh.res.error.some

\* the kind of outcome of the POST, as the claim names them
OutcomeClass(o) ==
    IF o.kind = "response"
    THEN IF o.status \in {200, 201, 202, 204} THEN "ok" ELSE "bad_status"
    ELSE IF o.exc \in {"Timeout", "ReadTimeout", "ConnectTimeout"} THEN "timeout"
    ELSE IF o.exc \in {"ConnectionError", "SSLError", "ProxyError"} THEN "connection"
    ELSE "other"

\* C7: for every outcome of the POST send_webhook_notification_detailed returns
\* a result instead of raising; success is true exactly when a response with
\* status 200, 201, 202 or 204 came; a response with another status carries
\* its status code; timeout, connection error and bad status give three
\* different error texts.
C7_EveryOutcomeReported ==
    ( wh.op = "send" /\ wh.res.posted )
    => /\ ~ wh.res.raised
       /\ wh.res.success <=>
              (wh.outcome.kind = "response" /\ wh.outcome.status \in {200, 201, 202, 204})
       /\ wh.res.success <=> ~ wh.res.error.some
       /\ wh.outcome.kind = "response" => wh.res.status_code = <<wh.outcome.status>>
       /\ wh.outcome.kind = "exception" => wh.res.status_code = << >>
       /\ \A o \in PostOutcomes :
              ( /\ OutcomeClass(o) \in {"timeout", "connection", "bad_status"}
                /\ OutcomeClass(wh.outcome) \in {"timeout", "connection", "bad_status"}
                /\ OutcomeClass(o) # OutcomeClass(wh.outcome) )
              => send_webhook_notification_detailed(webhook_url, dns, o).error.text
                     # wh.res.error.text

C7_Witness ==
    /\ wh.op = "send"
    /\ wh.res.posted
    /\ wh.outcome = Response(404)
    /\ ~ wh.res.success
    /\ wh.res.status_code = <<404>>

(***************************************************************************)
(* Check results as the alert engine reads them.  A date text is a record  *)
(* of its format and the instant it names (hours); "date" texts name a day *)
(* only, "frac" texts end in fractional seconds, "openssl" texts have the  *)
(* form 'Jun  1 12:00:00 2025 GMT' that getpeercert() gives.               *)
(***************************************************************************)
DateText(fmt, t) == [fmt |-> fmt, t |-> t]

\* strftime of the instant t in format fmt: a day-only text drops the hours
Strftime(fmt, t) ==
    DateText(fmt, IF fmt = "date" THEN (t \div 24) * 24 ELSE t)

\* parse_expiry_date: << >> is None, <<t>> the parsed instant
parse_expiry_date(expiry_str) ==
    IF expiry_str = << >> THEN << >>                     \* not expiry_str
    ELSE LET x == expiry_str[1] IN
         IF x.fmt \in {"space", "T", "date", "frac"} THEN <<x.t>>
         ELSE << >>                                      \* no format matches

\* the dict under 'ssl' (CertificateInfo), the fields the engine reads
SslInfo(days, notAfter) == [daysUntilExpiration |-> days, notAfter |-> notAfter]

\* the dict under 'data' of a check result; each optional entry is a sequence
\* of length 0 (absent) or 1
SslData(ssl, certExpiry, sslStatus, errs, ip, geo) ==
    [ssl |-> ssl, certificate_expiryDate |-> certExpiry, sslStatus |-> sslStatus,
     alerts |-> errs, ip |-> ip, geolocation |-> geo, ip_info |-> << >>]

\* the dict under 'data' as check_single_target builds it: the geolocation
\* record is stored under 'ip_info' (<< >> when the lookup gave None)
CheckerData(ssl, sslStatus, ip, ip_info) ==
    [SslData(ssl, << >>, sslStatus, << >>, ip, << >>) EXCEPT !.ip_info = ip_info]

EmptyData == SslData(<< >>, << >>, << >>, << >>, << >>, << >>)

\* an AlertConfig row
AlertConfig(enabled, a30, a7, a1, aerr, ageo, aexp, url) ==
    [enabled |-> enabled, alert_30_days |-> a30, alert_7_days |-> a7,
     alert_1_day |-> a1, alert_ssl_errors |-> aerr, alert_geo_changes |-> ageo,
     alert_cert_expired |-> aexp, webhook_url |-> url]

Msg(template, args) == [template |-> template, args |-> args]
NoMsg == Msg("", << >>)

Abs(n) == IF n < 0 THEN 0 - n ELSE n

Finding(alert_type, severity, message, days) ==
    [some |-> TRUE, alert_type |-> alert_type, severity |-> severity,
     message |-> message, days_remaining |-> days]
NoFinding ==
    [some |-> FALSE, alert_type |-> "", severity |-> "", message |-> NoMsg,
     days_remaining |-> 0]

\* a mutant of the threshold tests: the 7-day test is strict
ExpiryRuleStrict7(days_remaining, alert_config) ==
    IF days_remaining < 0 /\ alert_config.alert_cert_expired THEN
        Finding("expired", "critical",
                Msg("SSL certificate has expired {} days ago",
                    <<ToString(Abs(days_remaining))>>), days_remaining)
    ELSE IF days_remaining <= 1 /\ alert_config.alert_1_day THEN
        Finding("expiring_soon", "critical",
                Msg("SSL certificate expiring in {} day(s)",
                    <<ToString(days_remaining)>>), days_remaining)
    ELSE IF days_remaining < 7 /\ alert_config.alert_7_days THEN
        Finding("expiring_soon", "high",
                Msg("SSL certificate expiring in {} days",
                    <<ToString(days_remaining)>>), days_remaining)
    ELSE IF days_remaining <= 30 /\ alert_config.alert_30_days THEN
        Finding("expiring_soon", "medium",
                Msg("SSL certificate expiring in {} days",
                    <<ToString(days_remaining)>>), days_remaining)
    ELSE NoFinding

\* a mutant of the threshold tests: the 30-day test ignores its toggle
ExpiryRuleUngated30(days_remaining, alert_config) ==
    IF days_remaining < 0 /\ alert_config.alert_cert_expired THEN
        Finding("expired", "critical",
                Msg("SSL certificate has expired {} days ago",
                    <<ToString(Abs(days_remaining))>>), days_remaining)
    ELSE IF days_remaining <= 1 /\ alert_config.alert_1_day THEN
        Finding("expiring_soon", "critical",
                Msg("SSL certificate expiring in {} day(s)",
                    <<ToString(days_remaining)>>), days_remaining)
    ELSE IF days_remaining <= 7 /\ alert_config.alert_7_days THEN
        Finding("expiring_soon", "high",
                Msg("SSL certificate expiring in {} days",
                    <<ToString(days_remaining)>>), days_remaining)
    ELSE IF days_remaining <= 30 THEN
        Finding("expiring_soon", "medium",
                Msg("SSL certificate expiring in {} days",
                    <<ToString(days_remaining)>>), days_remaining)
    ELSE NoFinding

\* a mutant of the rule: an expired certificate is reported as expired
\* whatever alert_cert_expired says
ExpiryRuleExpiredUngated(days_remaining, alert_config) ==
    IF days_remaining < 0 THEN
        Finding("expired", "critical",
                Msg("SSL certificate has expired {} days ago",
                    <<ToString(Abs(days_remaining))>>), days_remaining)
    ELSE IF days_remaining <= 1 /\ alert_config.alert_1_day THEN
        Finding("expiring_soon", "critical",
                Msg("SSL certificate expiring in {} day(s)",
                    <<ToString(days_remaining)>>), days_remaining)
    ELSE IF days_remaining <= 7 /\ alert_config.alert_7_days THEN
        Finding("expiring_soon", "high",
                Msg("SSL certificate expiring in {} days",
                    <<ToString(days_remaining)>>), days_remaining)
    ELSE IF days_remaining <= 30 /\ alert_config.alert_30_days THEN
        Finding("expiring_soon", "medium",
                Msg("SSL certificate expiring in {} days",
                    <<ToString(days_remaining)>>), days_remaining)
    ELSE NoFinding

\* check_certificate_expiry from "Check if certificate is expired" on
ExpiryRule(days_remaining, alert_config) ==
    IF days_remaining < 0 /\ alert_config.alert_cert_expired THEN
        Finding("expired", "critical",
                Msg("SSL certificate has expired {} days ago",
                    <<ToString(Abs(days_remaining))>>), days_remaining)
    ELSE IF days_remaining <= 1 /\ alert_config.alert_1_day THEN
        Finding("expiring_soon", "critical",
                Msg("SSL certificate expiring in {} day(s)",
                    <<ToString(days_remaining)>>), days_remaining)
    ELSE IF days_remaining <= 7 /\ alert_config.alert_7_days THEN
        Finding("expiring_soon", "high",
                Msg("SSL certificate expiring in {} days",
                    <<ToString(days_remaining)>>), days_remaining)
    ELSE IF days_remaining <= 30 /\ alert_config.alert_30_days THEN
        Finding("expiring_soon", "medium",
                Msg("SSL certificate expiring in {} days",
                    <<ToString(days_remaining)>>), days_remaining)
    ELSE NoFinding

\* (expiry_date - now).days: timedelta.days is the floor of the day count
TimedeltaDays(expiry_date, t) == (expiry_date - t) \div 24

\* check_certificate_expiry(ssl_data, alert_config) called at the instant t
check_certificate_expiry(ssl_data, alert_config, t) ==
    IF ssl_data = EmptyData THEN NoFinding                  \* not ssl_data
    ELSE LET ssl_info == IF ssl_data.ssl = << >> THEN SslInfo(<< >>, << >>)
                         ELSE ssl_data.ssl[1] IN
         IF ssl_info.daysUntilExpiration # << >>
         THEN ExpiryRule(ssl_info.daysUntilExpiration[1], alert_config)
         ELSE IF ssl_info.notAfter = << >> THEN NoFinding
         ELSE LET expiry_date == parse_expiry_date(ssl_info.notAfter) IN
              IF expiry_date = << >> THEN NoFinding
              ELSE ExpiryRule(TimedeltaDays(expiry_date[1], t), alert_config)

(***************************************************************************)
(* The expiry rule as a function of its inputs.                            *)
(***************************************************************************)
MaxDays == 32

DaySamples == (0 - MaxDays)..MaxDays

\* the instants at which the rule is evaluated: a midnight and an afternoon
NowSamples == {2400, 2413}

\* hours between the evaluation and the expiry
OffsetSamples == {0 - 120, 0 - 25, 0 - 1, 0, 12, 24, 47, 48, 120, 191, 192, 600,
                  743, 744}

DateFormats == {"space", "T", "date", "frac", "openssl"}

BoolSet == {TRUE, FALSE}

ExpiryConfigs ==
    {AlertConfig(TRUE, a30, a7, a1, TRUE, FALSE, aexp, NoUrl) :
        a30 \in BoolSet, a7 \in BoolSet, a1 \in BoolSet, aexp \in BoolSet}

AllOnConfig == AlertConfig(TRUE, TRUE, TRUE, TRUE, TRUE, TRUE, TRUE, NoUrl)

\* check data for the expiry rule evaluated at the instant t: the day count
\* given, or only notAfter given, or only certificate.expiryDate given
ExpiryData(t) ==
    {SslData(<<SslInfo(<<d>>, na)>>, << >>, <<"success">>, << >>, << >>, << >>) :
        d \in DaySamples, na \in {<< >>, <<Strftime("openssl", t + 120)>>}}
    \cup
    {SslData(<<SslInfo(<< >>, <<Strftime(f, t + o)>>)>>, << >>, <<"success">>,
             << >>, << >>, << >>) :
        f \in DateFormats, o \in OffsetSamples}
    \cup
    {SslData(<< >>, <<Strftime("space", t + o)>>, <<"success">>, << >>, << >>, << >>) :
        o \in {0 - 120, 12, 120, 600}}
    \cup
    {EmptyData,
     SslData(<<SslInfo(<< >>, << >>)>>, << >>, <<"error">>, << >>, << >>, << >>)}

ExInit(data, cfg) == [data |-> data, cfg |-> cfg, done |-> FALSE, out |-> NoFinding]

InitExpiry ==
    /\ now \in NowSamples
    /\ ex \in {ExInit(d, c) : d \in ExpiryData(now), c \in ExpiryConfigs}
    /\ alerts = << >>
    /\ ssl_checks = << >>
    /\ monitors = << >>
    /\ alert_configs = << >>
    /\ posts = << >>
    /\ ret = << >>
    /\ WebhookIdle
    /\ RaceIdle
    /\ CallIdle

\* a call of check_certificate_expiry(ex.data, ex.cfg)
CheckCertificateExpiry ==
    /\ ~ ex.done
    /\ ex' = [ex EXCEPT !.done = TRUE,
                        !.out = check_certificate_expiry(ex.data, ex.cfg, now)]
    /\ UNCHANGED engineVars
    /\ UNCHANGED webhookVars
    /\ UNCHANGED raceVars
    /\ UNCHANGED call

\* the clock advances between the check and the evaluation of the rule
ClockAdvances ==
    /\ ~ ex.done
    /\ now \in NowSamples
    /\ now' = now + 1
    /\ UNCHANGED << alerts, ssl_checks, monitors, alert_configs, posts, ret, ex, call >>
    /\ UNCHANGED webhookVars
    /\ UNCHANGED raceVars

NextExpiry == CheckCertificateExpiry \/ ClockAdvances

SpecExpiry == InitExpiry /\ [][NextExpiry]_vars

(***************************************************************************)
(* Claims about the expiry rule (checked under SpecExpiry).                *)
(***************************************************************************)
AllExpiryTogglesOn(cfg) ==
    /\ cfg.alert_cert_expired
    /\ cfg.alert_1_day
    /\ cfg.alert_7_days
    /\ cfg.alert_30_days

\* the day count d of a check: the result's daysUntilExpiration when present,
\* otherwise the whole days from now to notAfter (rounded down); << >> when the
\* data gives neither
ParsableFormats == {"space", "T", "date", "frac"}

DayCountOf(data, t) ==
    IF data.ssl = << >> THEN << >>
    ELSE IF data.ssl[1].daysUntilExpiration # << >>
         THEN data.ssl[1].daysUntilExpiration
    ELSE IF data.ssl[1].notAfter = << >> THEN << >>
    ELSE IF data.ssl[1].notAfter[1].fmt \notin ParsableFormats THEN << >>
    ELSE LET diff == data.ssl[1].notAfter[1].t - t IN
         <<CHOOSE q \in -40..40 : q * 24 <= diff /\ diff < (q + 1) * 24>>

\* C8: with all expiry toggles on, check_certificate_expiry maps the day count
\* d to: d < 0 -> (expired, critical); 0..1 -> (expiring_soon, critical);
\* 2..7 -> (expiring_soon, high); 8..30 -> (expiring_soon, medium); d > 30 ->
\* no alert, d being daysUntilExpiration when present and otherwise recomputed
\* from notAfter.
C8_ExpiryMapping ==
    ( /\ ex.done
      /\ AllExpiryTogglesOn(ex.cfg)
      /\ DayCountOf(ex.data, now) # << >> )
    => LET d == DayCountOf(ex.data, now)[1] IN
       /\ d < 0 => /\ ex.out.some
                   /\ ex.out.alert_type = "expired"
                   /\ ex.out.severity = "critical"
       /\ d \in 0..1 => /\ ex.out.some
                        /\ ex.out.alert_type = "expiring_soon"
                        /\ ex.out.severity = "critical"
       /\ d \in 2..7 => /\ ex.out.some
                        /\ ex.out.alert_type = "expiring_soon"
                        /\ ex.out.severity = "high"
       /\ d \in 8..30 => /\ ex.out.some
                         /\ ex.out.alert_type = "expiring_soon"
                         /\ ex.out.severity = "medium"
       /\ d > 30 => ~ ex.out.some
       /\ ex.out.some => ex.out.days_remaining = d

\* the rule has run on a result without a day count whose notAfter lies 7 days
\* and 23 hours ahead, and reported (expiring_soon, high)
C8_Witness ==
    /\ ex.done
    /\ AllExpiryTogglesOn(ex.cfg)
    /\ ex.data.ssl # << >>
    /\ ex.data.ssl[1].daysUntilExpiration = << >>
    /\ ex.data.ssl[1].notAfter = <<DateText("T", now + 191)>>
    /\ ex.out.some
    /\ ex.out.severity = "high"
    /\ ex.out.days_remaining = 7

\* data that carries the expiry only as certificate.expiryDate
OnlyCertificateExpiryDate(data) ==
    /\ data.ssl = << >>
    /\ data.certificate_expiryDate # << >>
    /\ data.certificate_expiryDate[1].fmt = "space"

\* C10: check_certificate_expiry evaluates the thresholds on check data that
\* carries the expiry date only as certificate.expiryDate ('YYYY-MM-DD
\* HH:MM:SS'): 25 days ahead gives (expiring_soon, medium), 5 days ahead
\* (expiring_soon, high), 12 hours ahead (expiring_soon, critical, 0 days),
\* 5 days in the past (expired, critical); with the toggles on it never
\* returns no alert for such data.
C10_CertificateExpiryDateEvaluated ==
    ( /\ ex.done
      /\ AllExpiryTogglesOn(ex.cfg)
      /\ OnlyCertificateExpiryDate(ex.data) )
    => LET o == ex.data.certificate_expiryDate[1].t - now IN
       /\ ex.out.some
       /\ o = 600 => ex.out.alert_type = "expiring_soon" /\ ex.out.severity = "medium"
       /\ o = 120 => ex.out.alert_type = "expiring_soon" /\ ex.out.severity = "high"
       /\ o = 12 => /\ ex.out.alert_type = "expiring_soon"
                    /\ ex.out.severity = "critical"
                    /\ ex.out.days_remaining = 0
       /\ o = 0 - 120 => ex.out.alert_type = "expired" /\ ex.out.severity = "critical"

(***************************************************************************)
(* Alert engine: the rules over a check result, and the tables.            *)
(***************************************************************************)
\* the JSON a check returns: 'status' and, on success, 'data'
CheckResult(status, data) == [status |-> status, data |-> data]

\* ssl_check_data.get('data', {})
DataOf(result) == IF result.data = << >> THEN EmptyData ELSE result.data[1]

ErrorAlert(message) == [type |-> "error", message |-> message]

RECURSIVE ErrorMessages(_)
\* [alert.get('message', '') for alert in alerts if alert.get('type') == 'error']
ErrorMessages(errs) ==
    IF errs = << >> THEN << >>
    ELSE IF Head(errs).type = "error"
         THEN <<Head(errs).message>> \o ErrorMessages(Tail(errs))
         ELSE ErrorMessages(Tail(errs))

\* a mutant of check_ssl_errors: 'untrusted' is missing from the list
CheckSslErrorsNoUntrusted(ssl_data, alert_config) ==
    IF ~ alert_config.alert_ssl_errors THEN NoFinding
    ELSE LET ssl_status == IF ssl_data.sslStatus = << >> THEN "unknown"
                           ELSE ssl_data.sslStatus[1] IN
         IF ssl_status \in {"error", "invalid"} THEN
             LET error_messages == ErrorMessages(ssl_data.alerts) IN
             Finding("ssl_error", "high",
                 IF error_messages # << >>
                 THEN Msg("SSL validation error: {}",
                          SubSeq(error_messages, 1, Min(2, Len(error_messages))))
                 ELSE Msg("SSL validation error", << >>),
                 0)
         ELSE NoFinding

check_ssl_errors(ssl_data, alert_config) ==
    IF ~ alert_config.alert_ssl_errors THEN NoFinding
    ELSE LET ssl_status == IF ssl_data.sslStatus = << >> THEN "unknown"
                           ELSE ssl_data.sslStatus[1] IN
         IF ssl_status \in {"error", "invalid", "untrusted"} THEN
             LET error_messages == ErrorMessages(ssl_data.alerts) IN
             Finding("ssl_error", "high",
                 IF error_messages # << >>
                 THEN Msg("SSL validation error: {}",
                          SubSeq(error_messages, 1, Min(2, Len(error_messages))))
                 ELSE Msg("SSL validation error", << >>),
                 0)
         ELSE NoFinding

\* ---- tables ----
AlertRow(id, user_id, domain, alert_type, severity, message, is_read, is_resolved, created_at, resolved_at) ==
    [id |-> id, user_id |-> user_id, domain |-> domain, alert_type |-> alert_type,
     severity |-> severity, message |-> message, is_read |-> is_read,
     is_resolved |-> is_resolved, created_at |-> created_at,
     resolved_at |-> resolved_at]

CheckRow(user_id, domain, checked_at, response_data) ==
    [user_id |-> user_id, domain |-> domain, checked_at |-> checked_at,
     response_data |-> response_data]

MonitorRow(user_id, domain, alerts_enabled, url) ==
    [user_id |-> user_id, domain |-> domain, alerts_enabled |-> alerts_enabled,
     webhook_url |-> url]

ConfigRow(user_id, cfg) == [user_id |-> user_id, cfg |-> cfg]

SetMax(S) == CHOOSE x \in S : \A y \in S : y <= x
SetMin(S) == CHOOSE x \in S : \A y \in S : x <= y

\* the checks of (user_id, domain), newest first: rows are stamped with
\* utcnow() as they are inserted, so a later row has the later checked_at
ChecksOf(checks, user_id, domain) ==
    {i \in 1..Len(checks) : checks[i].user_id = user_id /\ checks[i].domain = domain}

check_geo_changes(domain, current_ip, current_geo, checks, user_id, alert_config) ==
    IF ~ alert_config.alert_geo_changes \/ current_ip = << >> \/ current_geo = << >>
    THEN NoFinding
    ELSE LET mine == ChecksOf(checks, user_id, domain) IN
         IF Cardinality(mine) < 2 THEN NoFinding       \* .offset(1).first() is None
         ELSE LET previous_check == checks[SetMax(mine \ {SetMax(mine)})]
                  previous_geo == DataOf(previous_check.response_data).geolocation
              IN
              IF previous_geo = << >> THEN NoFinding
              ELSE LET current_country == current_geo[1].country
                       previous_country == previous_geo[1].country
                   IN
                   IF /\ current_country # ""
                      /\ previous_country # ""
                      /\ current_country # previous_country
                   THEN Finding("geo_change", "medium",
                            Msg("Geolocation changed from {} to {}",
                                <<previous_country, current_country>>), 0)
                   ELSE NoFinding

DedupWindowHours == 24

\* a mutant of the dedup query: resolved rows match too
DedupMatchesResolvedToo(tbl, t, user_id, domain, alert_type, window) ==
    {i \in 1..Len(tbl) :
        /\ tbl[i].user_id = user_id
        /\ tbl[i].domain = domain
        /\ tbl[i].alert_type = alert_type
        /\ tbl[i].created_at >= t - window}

\* the rows create_alert's dedup query matches at the instant t
DedupMatches(tbl, t, user_id, domain, alert_type, window) ==
    {i \in 1..Len(tbl) :
        /\ tbl[i].user_id = user_id
        /\ tbl[i].domain = domain
        /\ tbl[i].alert_type = alert_type
        /\ tbl[i].is_resolved = FALSE
        /\ tbl[i].created_at >= t - window}

\* the primary key the database gives a new row
NextId(tbl) == IF tbl = << >> THEN 1 ELSE SetMax({tbl[i].id : i \in 1..Len(tbl)}) + 1

\* .first() of the dedup query: pick is the position the database returns,
\* 0 when no row matches
FirstOk(tbl, t, user_id, domain, alert_type, pick) ==
    LET m == DedupMatches(tbl, t, user_id, domain, alert_type, DedupWindowHours) IN
    IF m = {} THEN pick = 0 ELSE pick \in m

\* a mutant of create_alert: an existing alert is found but a row is inserted
\* all the same
CreateAlertAlwaysInsert(tbl, t, user_id, domain, alert_type, severity, message, pick) ==
    [tbl |-> Append(tbl, AlertRow(NextId(tbl), user_id, domain, alert_type, severity,
                                  message, FALSE, FALSE, t, << >>)),
     id |-> NextId(tbl), existing |-> FALSE]

\* a mutant of create_alert: the existing alert takes the new severity too
CreateAlertUpdatingSeverity(tbl, t, user_id, domain, alert_type, severity, message, pick) ==
    IF pick # 0 THEN
        [tbl |-> [tbl EXCEPT ![pick].created_at = t, ![pick].message = message,
                             ![pick].severity = severity],
         id |-> tbl[pick].id, existing |-> TRUE]
    ELSE
        [tbl |-> Append(tbl, AlertRow(NextId(tbl), user_id, domain, alert_type, severity,
                                      message, FALSE, FALSE, t, << >>)),
         id |-> NextId(tbl), existing |-> FALSE]

\* create_alert called at the instant t; the result is the table after the
\* commit, the id of the alert returned and the branch taken
create_alert(tbl, t, user_id, domain, alert_type, severity, message, pick) ==
    IF pick # 0 THEN
        [tbl |-> [tbl EXCEPT ![pick].created_at = t, ![pick].message = message],
         id |-> tbl[pick].id, existing |-> TRUE]
    ELSE
        [tbl |-> Append(tbl, AlertRow(NextId(tbl), user_id, domain, alert_type, severity,
                                      message, FALSE, FALSE, t, << >>)),
         id |-> NextId(tbl), existing |-> FALSE]

\* the three rules of process_ssl_check_alerts in the order it evaluates them,
\* the ones that found something
Findings(ssl_data, alert_config, checks, t, user_id, domain) ==
    LET expiry_check == check_certificate_expiry(ssl_data, alert_config, t)
        error_check == check_ssl_errors(ssl_data, alert_config)
        geo_check == check_geo_changes(domain, ssl_data.ip, ssl_data.geolocation,
                                       checks, user_id, alert_config)
    IN SelectSeq(<<expiry_check, error_check, geo_check>>, LAMBDA f : f.some)

\* the answers the database may give to the dedup queries of the findings fs
RECURSIVE PickSeqs(_, _, _, _, _)
PickSeqs(tbl, t, user_id, domain, fs) ==
    IF fs = << >> THEN {<< >>}
    ELSE UNION {{<<pick>> \o rest :
                   rest \in PickSeqs(create_alert(tbl, t, user_id, domain,
                                        Head(fs).alert_type, Head(fs).severity,
                                        Head(fs).message, pick).tbl,
                                    t, user_id, domain, Tail(fs))} :
                pick \in {p \in 0..Len(tbl) :
                            FirstOk(tbl, t, user_id, domain, Head(fs).alert_type, p)}}

\* one create_alert per finding; picks[i] answers the i-th dedup query
RECURSIVE StoreFindings(_, _, _, _, _, _)
StoreFindings(tbl, t, user_id, domain, fs, picks) ==
    IF fs = << >> THEN [tbl |-> tbl, ids |-> << >>, existing |-> << >>]
    ELSE LET f == Head(fs)
             one == create_alert(tbl, t, user_id, domain, f.alert_type, f.severity,
                                 f.message, Head(picks))
             more == StoreFindings(one.tbl, t, user_id, domain, Tail(fs), Tail(picks))
         IN [tbl |-> more.tbl, ids |-> <<one.id>> \o more.ids,
             existing |-> <<one.existing>> \o more.existing]

\* db.query(Monitor).filter(user_id, domain).first(): << >> when there is none
MonitorOf(mons, user_id, domain) ==
    LET m == {i \in 1..Len(mons) : mons[i].user_id = user_id /\ mons[i].domain = domain}
    IN IF m = {} THEN << >> ELSE <<mons[SetMin(m)]>>

Truthy(u) == u.kind \notin {"none", "empty"}

\* a mutant of the URL choice: the account-level URL is preferred
ChooseWebhookUrlAccountFirst(monitor, alert_config) ==
    IF Truthy(alert_config.webhook_url) THEN alert_config.webhook_url
    ELSE IF monitor # << >> /\ Truthy(monitor[1].webhook_url) THEN monitor[1].webhook_url
    ELSE NoUrl

\* the domain-specific webhook if available, otherwise the account's
ChooseWebhookUrl(monitor, alert_config) ==
    IF monitor # << >> /\ Truthy(monitor[1].webhook_url) THEN monitor[1].webhook_url
    ELSE IF Truthy(alert_config.webhook_url) THEN alert_config.webhook_url
    ELSE NoUrl

Post(alert_id, url, result) ==
    [alert_id |-> alert_id, url |-> url, posted |-> result.posted,
     success |-> result.success]

\* a mutant of the dispatch loop: it stops after the first alert
DispatchFirstOnly(ids, url, d, outs) ==
    IF ids # << >> /\ Truthy(url)
    THEN <<Post(ids[1], url, send_webhook_notification_detailed(url, d, outs[1]))>>
    ELSE << >>

\* the dispatch loop: one send_webhook_notification per returned alert
Dispatch(ids, url, d, outs) ==
    IF ids # << >> /\ Truthy(url)
    THEN [i \in 1..Len(ids) |->
            Post(ids[i], url, send_webhook_notification_detailed(url, d, outs[i]))]
    ELSE << >>

Processed(tbl, ids, existing, findings, posted) ==
    [alerts |-> tbl, ids |-> ids, existing |-> existing, findings |-> findings,
     posts |-> posted]

\* a mutant of process_ssl_check_alerts: the monitor's alerts_enabled is not
\* looked at
ProcessIgnoringMonitor(tbl, checks, mons, t, user_id, domain, ssl_check_data, alert_config, picks, d, outs) ==
    IF alert_config = << >> \/ ~ alert_config[1].enabled
    THEN Processed(tbl, << >>, << >>, << >>, << >>)
    ELSE LET monitor == MonitorOf(mons, user_id, domain)
             ssl_data == DataOf(ssl_check_data)
             fs == Findings(ssl_data, alert_config[1], checks, t, user_id, domain)
             stored == StoreFindings(tbl, t, user_id, domain, fs, picks)
             url == ChooseWebhookUrl(monitor, alert_config[1])
         IN Processed(stored.tbl, stored.ids, stored.existing, fs,
                      Dispatch(stored.ids, url, d, outs))

\* a mutant of process_ssl_check_alerts: a failed delivery unwinds the run
ProcessUnwindingOnFailure(tbl, checks, mons, t, user_id, domain, ssl_check_data, alert_config, picks, d, outs) ==
    IF alert_config = << >> \/ ~ alert_config[1].enabled
    THEN Processed(tbl, << >>, << >>, << >>, << >>)
    ELSE LET monitor == MonitorOf(mons, user_id, domain) IN
         IF monitor # << >> /\ ~ monitor[1].alerts_enabled
         THEN Processed(tbl, << >>, << >>, << >>, << >>)
         ELSE LET ssl_data == DataOf(ssl_check_data)
                  fs == Findings(ssl_data, alert_config[1], checks, t, user_id, domain)
                  stored == StoreFindings(tbl, t, user_id, domain, fs, picks)
                  url == ChooseWebhookUrl(monitor, alert_config[1])
                  sent == Dispatch(stored.ids, url, d, outs)
              IN IF \E i \in 1..Len(sent) : ~ sent[i].success
                 THEN Processed(tbl, << >>, << >>, fs, sent)
                 ELSE Processed(stored.tbl, stored.ids, stored.existing, fs, sent)

\* process_ssl_check_alerts called at the instant t: alert_config is << >>
\* (None) or <<config>>
process_ssl_check_alerts(tbl, checks, mons, t, user_id, domain, ssl_check_data, alert_config, picks, d, outs) ==
    IF alert_config = << >> \/ ~ alert_config[1].enabled
    THEN Processed(tbl, << >>, << >>, << >>, << >>)
    ELSE LET monitor == MonitorOf(mons, user_id, domain) IN
         IF monitor # << >> /\ ~ monitor[1].alerts_enabled
         THEN Processed(tbl, << >>, << >>, << >>, << >>)
         ELSE LET ssl_data == DataOf(ssl_check_data)
                  fs == Findings(ssl_data, alert_config[1], checks, t, user_id, domain)
                  stored == StoreFindings(tbl, t, user_id, domain, fs, picks)
                  url == ChooseWebhookUrl(monitor, alert_config[1])
              IN Processed(stored.tbl, stored.ids, stored.existing, fs,
                           Dispatch(stored.ids, url, d, outs))

\* the findings a run will store, for the choice of the database's answers
FindingsOfRun(checks, mons, t, user_id, domain, ssl_check_data, alert_config) ==
    IF alert_config = << >> \/ ~ alert_config[1].enabled THEN << >>
    ELSE LET monitor == MonitorOf(mons, user_id, domain) IN
         IF monitor # << >> /\ ~ monitor[1].alerts_enabled THEN << >>
         ELSE Findings(DataOf(ssl_check_data), alert_config[1], checks, t, user_id,
                       domain)

DefaultAlertConfig == AlertConfig(TRUE, TRUE, TRUE, TRUE, TRUE, FALSE, TRUE, NoUrl)

ConfigOf(cfgs, user_id) ==
    LET m == {i \in 1..Len(cfgs) : cfgs[i].user_id = user_id}
    IN IF m = {} THEN << >> ELSE <<cfgs[SetMin(m)].cfg>>

\* a mutant of get_or_create_alert_config: a row is added on every call
GetOrCreateAlwaysCreate(cfgs, user_id) ==
    Append(cfgs, ConfigRow(user_id, DefaultAlertConfig))

\* get_or_create_alert_config: the table after the call
get_or_create_alert_config(cfgs, user_id) ==
    IF ConfigOf(cfgs, user_id) # << >> THEN cfgs
    ELSE Append(cfgs, ConfigRow(user_id, DefaultAlertConfig))

(***************************************************************************)
(* The alert engine as a state machine: checks arrive, the clock advances, *)
(* the owner resolves alerts.                                              *)
(***************************************************************************)
MaxChecks == 2
MaxTime == 48
MaxAlerts == 3

Users == {1, 2}
Domains == {"example.com"}

\* hours the clock may advance in one step
TickSteps == {24}

PublicUrl == Url("https", Ip4(8, 8, 8, 8))

Geo(country) == <<[country |-> country]>>

\* check results the checker may hand over: certificates expiring in 8 and in
\* 7 days, an expired certificate with a validation error, a healthy
\* certificate served from another country
SampleResults ==
    {CheckResult("success",
        <<SslData(<<SslInfo(<<8>>, << >>)>>, << >>, <<"success">>, << >>,
                  <<"1.2.3.4">>, Geo("United States"))>>),
     CheckResult("success",
        <<SslData(<<SslInfo(<<7>>, << >>)>>, << >>, <<"success">>, << >>,
                  <<"1.2.3.4">>, Geo("United States"))>>),
     CheckResult("success",
        <<SslData(<<SslInfo(<<0 - 3>>, << >>)>>, << >>, <<"invalid">>,
                  <<ErrorAlert("Certificate has expired")>>,
                  <<"1.2.3.4">>, Geo("United States"))>>),
     CheckResult("success",
        <<SslData(<<SslInfo(<<40>>, << >>)>>, << >>, <<"success">>, << >>,
                  <<"1.2.3.5">>, Geo("Germany"))>>)}

\* who checks what: the first user sees every result, the second one the
\* certificate that expires in 7 days
SampleChecks ==
    {c \in [user : Users, result : SampleResults] :
        c.user = 1 \/ (c.result.data # << >> /\ c.result.data[1].ssl[1].daysUntilExpiration = <<7>>)}

AllOnRows(url) == [i \in 1..Cardinality(Users) |-> ConfigRow(i, [AllOnConfig EXCEPT !.webhook_url = url])]

ConfigTables == {<< >>, AllOnRows(PublicUrl)}

MonitorTables == {<< >>}

EngineOutcomes == {Response(200), Raises("Timeout")}

EngineDns == {[failed |-> TRUE, addrs |-> << >>],
              [failed |-> FALSE, addrs |-> <<Ip4(8, 8, 8, 8)>>]}

Ret(op, user, domain, findings, ids, existing) ==
    [op |-> op, user |-> user, domain |-> domain, findings |-> findings,
     ids |-> ids, existing |-> existing]

Init ==
    /\ now = 0
    /\ alerts = << >>
    /\ ssl_checks = << >>
    /\ monitors \in MonitorTables
    /\ alert_configs \in ConfigTables
    /\ posts = << >>
    /\ ret = Ret("init", 0, "", << >>, << >>, << >>)
    /\ WebhookIdle
    /\ ExpiryIdle
    /\ RaceIdle
    /\ CallIdle

\* GET /api/check of user for a domain, the checker answering result: the
\* check row is stored, the configuration fetched (or created) and the alerts
\* processed
check_ssl(user, domain, result) ==
    LET checks2 == Append(ssl_checks, CheckRow(user, domain, now, result))
        cfgs2 == get_or_create_alert_config(alert_configs, user)
        alert_config == ConfigOf(cfgs2, user)
        fs == FindingsOfRun(checks2, monitors, now, user, domain, result,
                            alert_config)
        url == ChooseWebhookUrl(MonitorOf(monitors, user, domain), alert_config[1])
    IN
    /\ \E picks \in PickSeqs(alerts, now, user, domain, fs),
          d \in IF url.host.kind = "name" THEN EngineDns
                ELSE {[failed |-> TRUE, addrs |-> << >>]},
          outs \in IF Truthy(url) THEN [1..Len(fs) -> EngineOutcomes]
                   ELSE {[i \in 1..Len(fs) |-> NoOutcome]} :
          LET r == process_ssl_check_alerts(alerts, checks2, monitors, now, user,
                       domain, result, alert_config, picks, d, outs)
          IN /\ Len(r.alerts) <= MaxAlerts
             /\ alerts' = r.alerts
             /\ posts' = r.posts
             /\ ret' = Ret("check_ssl", user, domain, r.findings, r.ids, r.existing)
    /\ ssl_checks' = checks2
    /\ alert_configs' = cfgs2
    /\ UNCHANGED << now, monitors, ex, call >>
    /\ UNCHANGED webhookVars
    /\ UNCHANGED raceVars

CheckSsl ==
    \E c \in SampleChecks, domain \in Domains :
        /\ Len(ssl_checks) < MaxChecks
        /\ check_ssl(c.user, domain, c.result)

\* time passes
Tick ==
    \E dt \in TickSteps :
        /\ now + dt <= MaxTime
        /\ now' = now + dt
        /\ posts' = << >>
        /\ ret' = Ret("tick", 0, "", << >>, << >>, << >>)
        /\ UNCHANGED << alerts, ssl_checks, monitors, alert_configs, ex, call >>
        /\ UNCHANGED webhookVars
        /\ UNCHANGED raceVars

\* the alert of that id owned by user: << >> when there is none (404)
AlertOf(tbl, alert_id, user) ==
    LET m == {i \in 1..Len(tbl) : tbl[i].id = alert_id /\ tbl[i].user_id = user}
    IN IF m = {} THEN 0 ELSE SetMin(m)

\* PATCH /api/alerts/{alert_id}/resolve, by an owner who resolves an alert once
MarkAlertResolved ==
    \E user \in Users, alert_id \in 1..Len(alerts) :
        LET i == AlertOf(alerts, alert_id, user) IN
        /\ i # 0
        /\ ~ alerts[i].is_resolved
        /\ alerts' = [alerts EXCEPT ![i].is_resolved = TRUE, ![i].resolved_at = <<now>>]
        /\ posts' = << >>
        /\ ret' = Ret("mark_alert_resolved", user, "", << >>, <<alert_id>>, << >>)
        /\ UNCHANGED << now, ssl_checks, monitors, alert_configs, ex, call >>
        /\ UNCHANGED webhookVars
        /\ UNCHANGED raceVars

Next == CheckSsl \/ Tick \/ MarkAlertResolved

Spec == Init /\ [][Next]_vars

(***************************************************************************)
(* Claims about the alert engine.                                          *)
(***************************************************************************)
\* the rows of tbl of one (owner, domain, type)
RowsOfKey(tbl, user_id, domain, alert_type) ==
    {j \in 1..Len(tbl) : /\ tbl[j].user_id = user_id
                         /\ tbl[j].domain = domain
                         /\ tbl[j].alert_type = alert_type}

\* those of them that are unresolved and were created in the 24 hours before t
LiveRowsOfKey(tbl, t, user_id, domain, alert_type) ==
    {j \in RowsOfKey(tbl, user_id, domain, alert_type) :
        ~ tbl[j].is_resolved /\ tbl[j].created_at >= t - 24 /\ tbl[j].created_at <= t}

\* the row of the alert of that id
RowOfId(tbl, id) == tbl[CHOOSE j \in 1..Len(tbl) : tbl[j].id = id]

\* C1: when a check triggers an alert of a type for which the owner and domain
\* have an unresolved alert created within the last 24 hours, the number of
\* rows of that (owner, domain, type) does not grow, the alert returned is that
\* existing one (same id), and its created_at and message are the new call's.
C1_DedupRefreshesExisting ==
    [][ (ssl_checks' # ssl_checks) =>
          \A i \in 1..Len(ret'.findings) :
              LET f == ret'.findings[i]
                  live == LiveRowsOfKey(alerts, now, ret'.user, ret'.domain, f.alert_type)
              IN live # {} =>
                   /\ Cardinality(RowsOfKey(alerts', ret'.user, ret'.domain, f.alert_type))
                        = Cardinality(RowsOfKey(alerts, ret'.user, ret'.domain, f.alert_type))
                   /\ \E j \in live :
                        /\ ret'.ids[i] = alerts[j].id
                        /\ alerts'[j].id = alerts[j].id
                        /\ alerts'[j].created_at = now'
                        /\ alerts'[j].message = f.message ]_vars

\* a check has just returned an alert that existed before it, created at an
\* earlier hour, and the alert now carries the hour of the check
C1_Witness ==
    /\ ret.op = "check_ssl"
    /\ now > 0
    /\ \E i \in 1..Len(ret.ids) :
          /\ ret.existing[i]
          /\ RowOfId(alerts, ret.ids[i]).created_at = now
          /\ RowOfId(alerts, ret.ids[i]).message = ret.findings[i].message

\* the check that has just run: its row is the last of ssl_checks
LastCheck == ssl_checks[Len(ssl_checks)]

\* the country of the newest earlier check of the owner and domain differs from
\* the country of the check that has just run
GeoChanged ==
    LET cur == DataOf(LastCheck.response_data).geolocation
        earlier == {j \in 1..(Len(ssl_checks) - 1) :
                      /\ ssl_checks[j].user_id = LastCheck.user_id
                      /\ ssl_checks[j].domain = LastCheck.domain}
    IN /\ earlier # {}
       /\ cur # << >>
       /\ LET prev == DataOf(ssl_checks[SetMax(earlier)].response_data).geolocation
          IN prev # << >> /\ prev[1].country # cur[1].country

\* alerting was on for the check that has just run, with the 7-day and 1-day
\* thresholds, and the result is a valid certificate expiring in 2..7 days
\* seen from the same country as before
C9_Case ==
    /\ ret.op = "check_ssl"
    /\ \A j \in 1..Len(monitors) :
          (monitors[j].user_id = ret.user /\ monitors[j].domain = ret.domain)
             => monitors[j].alerts_enabled
    /\ \E j \in 1..Len(alert_configs) :
          /\ alert_configs[j].user_id = ret.user
          /\ alert_configs[j].cfg.enabled
          /\ alert_configs[j].cfg.alert_7_days
          /\ alert_configs[j].cfg.alert_1_day
    /\ LastCheck.response_data.data # << >>
    /\ LET data == LastCheck.response_data.data[1] IN
          /\ data.sslStatus = <<"success">>
          /\ data.ssl # << >>
          /\ data.ssl[1].daysUntilExpiration # << >>
          /\ data.ssl[1].daysUntilExpiration[1] \in 2..7
    /\ ~ GeoChanged

\* C9: such a check returns exactly one alert, of type expiring_soon and
\* severity high.
C9_OneExpiringSoonHigh ==
    C9_Case =>
        /\ Len(ret.ids) = 1
        /\ RowOfId(alerts, ret.ids[1]).alert_type = "expiring_soon"
        /\ RowOfId(alerts, ret.ids[1]).severity = "high"

(***************************************************************************)
(* Two server processes run create_alert against the one database: each    *)
(* runs its dedup query, then commits its insert or update.  Nothing in    *)
(* create_alert or in the schema holds the rows between the two statements.*)
(***************************************************************************)
RaceWorkers == {1, 2}

RaceTypes == {"expiring_soon", "ssl_error"}

RaceMessage(alert_type) ==
    IF alert_type = "expiring_soon"
    THEN Msg("SSL certificate expiring in {} days", <<"7">>)
    ELSE Msg("SSL validation error", << >>)

\* the tables the runs start from: no alert at all, a resolved one, and an
\* unresolved one older than the window
RaceTables ==
    {<< >>,
     <<AlertRow(1, 1, "example.com", "expiring_soon", "high",
                RaceMessage("expiring_soon"), FALSE, TRUE, 12, <<20>>)>>,
     <<AlertRow(1, 1, "example.com", "expiring_soon", "high",
                RaceMessage("expiring_soon"), FALSE, FALSE, 0 - 1, << >>)>>}

Call(at, user_id, domain, alert_type) ==
    [at |-> at, user_id |-> user_id, domain |-> domain, alert_type |-> alert_type]

InitRace ==
    /\ now = 24
    /\ alerts \in RaceTables
    /\ pc \in [RaceWorkers -> {Call("start", u, d, a) :
                                 u \in Users, d \in Domains, a \in RaceTypes}]
    /\ found = [w \in RaceWorkers |-> 0]
    /\ ssl_checks = << >>
    /\ monitors = << >>
    /\ alert_configs = << >>
    /\ posts = << >>
    /\ ret = << >>
    /\ WebhookIdle
    /\ ExpiryIdle
    /\ CallIdle

\* the dedup query of worker w: .first() answers with a matching row or None
RaceQuery(w) ==
    /\ pc[w].at = "start"
    /\ \E pick \in 0..Len(alerts) :
          /\ FirstOk(alerts, now, pc[w].user_id, pc[w].domain, pc[w].alert_type, pick)
          /\ found' = [found EXCEPT ![w] = pick]
    /\ pc' = [pc EXCEPT ![w].at = "queried"]
    /\ UNCHANGED << now, alerts, ssl_checks, monitors, alert_configs, posts, ret, ex, call >>
    /\ UNCHANGED webhookVars

\* the commit of worker w: the update of the row found, or the insert
RaceCommit(w) ==
    /\ pc[w].at = "queried"
    /\ alerts' = create_alert(alerts, now, pc[w].user_id, pc[w].domain,
                              pc[w].alert_type, "high",
                              RaceMessage(pc[w].alert_type), found[w]).tbl
    /\ pc' = [pc EXCEPT ![w].at = "done"]
    /\ UNCHANGED << now, found, ssl_checks, monitors, alert_configs, posts, ret, ex, call >>
    /\ UNCHANGED webhookVars

\* time passes between the statements
RaceTick ==
    \E dt \in TickSteps :
        /\ now + dt <= MaxTime
        /\ now' = now + dt
        /\ UNCHANGED << alerts, ssl_checks, monitors, alert_configs, posts, ret, ex, call >>
        /\ UNCHANGED webhookVars
        /\ UNCHANGED raceVars

NextRace == (\E w \in RaceWorkers : RaceQuery(w) \/ RaceCommit(w)) \/ RaceTick

SpecRace == InitRace /\ [][NextRace]_vars

\* C2: when two runs for the same (owner, domain, type) start with no matching
\* alert, every interleaving of their lookups and writes leaves at most one
\* unresolved alert of that key inside the 24-hour window.
C2_DedupSerializedPerKey ==
    ( /\ pc[1].user_id = pc[2].user_id
      /\ pc[1].domain = pc[2].domain
      /\ pc[1].alert_type = pc[2].alert_type )
    => Cardinality(LiveRowsOfKey(alerts, now, pc[1].user_id, pc[1].domain,
                                 pc[1].alert_type)) <= 1

(***************************************************************************)
(* check_ssl_errors as a function of the check's data and the toggles.     *)
(***************************************************************************)
MaxErrs == 2

WarningAlert(message) == [type |-> "warning", message |-> message]

\* the entries a result's alert list may hold
SampleAlertEntries ==
    {ErrorAlert("Certificate validation failed"), ErrorAlert("Hostname mismatch"),
     WarningAlert("Certificate expires soon")}

AlertLists == UNION {[1..n -> SampleAlertEntries] : n \in 0..MaxErrs}

\* the sslStatus of a result: missing, the checker's values, and others
SampleSslStatuses ==
    {<< >>, <<"success">>, <<"error">>, <<"invalid">>, <<"untrusted">>,
     <<"unknown">>, <<"warning">>, <<"valid">>, <<"">>, <<"ERROR">>}

ErrorsConfigs ==
    {AlertConfig(en, TRUE, TRUE, TRUE, aerr, ageo, TRUE, NoUrl) :
        en \in BoolSet, aerr \in BoolSet, ageo \in BoolSet}

ErrorsCall(ssl_data, alert_config, done, out) ==
    [op |-> "check_ssl_errors", ssl_data |-> ssl_data, alert_config |-> alert_config,
     done |-> done, out |-> out]

InitErrors ==
    /\ \E st \in SampleSslStatuses, errs \in AlertLists, cfg \in ErrorsConfigs :
          call = ErrorsCall(SslData(<< >>, << >>, st, errs, << >>, << >>), cfg,
                            FALSE, NoFinding)
    /\ EngineIdle
    /\ WebhookIdle
    /\ ExpiryIdle
    /\ RaceIdle

\* a call of check_ssl_errors(call.ssl_data, call.alert_config)
CheckSslErrors ==
    /\ call.op = "check_ssl_errors"
    /\ ~ call.done
    /\ call' = [call EXCEPT !.done = TRUE,
                            !.out = check_ssl_errors(call.ssl_data, call.alert_config)]
    /\ UNCHANGED engineVars
    /\ UNCHANGED webhookVars
    /\ UNCHANGED raceVars
    /\ UNCHANGED ex

NextErrors == CheckSslErrors

SpecErrors == InitErrors /\ [][NextErrors]_vars

\* C11: check_ssl_errors returns (ssl_error, high, message) exactly when
\* alert_ssl_errors is on and sslStatus is error, invalid or untrusted; with
\* the toggle off or any other (or no) sslStatus it returns no alert.
C11_SslErrorRule ==
    call.done =>
        /\ call.out.some <=>
             ( /\ call.alert_config.alert_ssl_errors
               /\ call.ssl_data.sslStatus \in {<<"error">>, <<"invalid">>, <<"untrusted">>} )
        /\ call.out.some =>
             /\ call.out.alert_type = "ssl_error"
             /\ call.out.severity = "high"
             /\ call.out.message.template \in {"SSL validation error",
                                               "SSL validation error: {}"}

\* the rule has fired on an untrusted certificate
C11_Witness ==
    /\ call.done
    /\ call.out.some
    /\ call.ssl_data.sslStatus = <<"untrusted">>

(***************************************************************************)
(* The geo-change rule over sequences of checks whose results are the      *)
(* checker's: check_single_target stores the geolocation record under      *)
(* 'ip_info'.                                                              *)
(***************************************************************************)
MaxGeoChecks == 3

\* healthy certificates seen from the United States, from Germany, and with
\* a failed geolocation lookup
GeoResults ==
    {CheckResult("success",
        <<CheckerData(<<SslInfo(<<40>>, << >>)>>, <<"success">>, <<"1.2.3.4">>,
                      Geo("United States"))>>),
     CheckResult("success",
        <<CheckerData(<<SslInfo(<<40>>, << >>)>>, <<"success">>, <<"1.2.3.5">>,
                      Geo("Germany"))>>),
     CheckResult("success",
        <<CheckerData(<<SslInfo(<<40>>, << >>)>>, <<"success">>, <<"1.2.3.4">>,
                      << >>)>>)}

GeoChecks ==
    {c \in [user : Users, result : GeoResults] :
        c.user = 1 \/ c.result.data[1].ip_info = Geo("United States")}

\* every toggle on, or no row yet (the defaults: geo-change off)
GeoConfigTables == {AllOnRows(NoUrl), << >>}

InitGeo ==
    /\ now = 0
    /\ alerts = << >>
    /\ ssl_checks = << >>
    /\ monitors = << >>
    /\ alert_configs \in GeoConfigTables
    /\ posts = << >>
    /\ ret = Ret("init", 0, "", << >>, << >>, << >>)
    /\ WebhookIdle
    /\ ExpiryIdle
    /\ RaceIdle
    /\ CallIdle

CheckSslGeo ==
    \E c \in GeoChecks, domain \in Domains :
        /\ Len(ssl_checks) < MaxGeoChecks
        /\ check_ssl(c.user, domain, c.result)

NextGeo == CheckSslGeo \/ Tick

SpecGeo == InitGeo /\ [][NextGeo]_vars

\* the country a check result carries in its geolocation record, "" when it
\* carries none
CountryOf(result) ==
    LET data == DataOf(result) IN
    IF data.geolocation # << >> THEN data.geolocation[1].country
    ELSE IF data.ip_info # << >> THEN data.ip_info[1].country
    ELSE ""

\* the checks of the owner and domain of the last check, made before it
EarlierChecks ==
    {j \in 1..(Len(ssl_checks) - 1) : /\ ssl_checks[j].user_id = LastCheck.user_id
                                      /\ ssl_checks[j].domain = LastCheck.domain}

\* C12: a check raises (geo_change, medium) exactly when alert_geo_changes is
\* on and the check and the newest earlier check of the same owner and domain
\* both carry a country and the two countries differ; it raises nothing when
\* there is no earlier check or one side has no country.
C12_GeoChangeRule ==
    ( /\ ret.op = "check_ssl"
      /\ ConfigOf(alert_configs, ret.user) # << >>
      /\ ConfigOf(alert_configs, ret.user)[1].enabled )
    => LET cfg == ConfigOf(alert_configs, ret.user)[1]
           raised == {i \in 1..Len(ret.findings) :
                        ret.findings[i].alert_type = "geo_change"}
           due == /\ cfg.alert_geo_changes
                  /\ EarlierChecks # {}
                  /\ CountryOf(LastCheck.response_data) # ""
                  /\ LET prev == ssl_checks[SetMax(EarlierChecks)] IN
                        /\ CountryOf(prev.response_data) # ""
                        /\ CountryOf(prev.response_data) # CountryOf(LastCheck.response_data)
       IN /\ (raised # {}) <=> due
          /\ \A i \in raised : ret.findings[i].severity = "medium"

(***************************************************************************)
(* process_ssl_check_alerts called once, as check_ssl and the tests call   *)
(* it, over the configurations, monitors and tables it may meet.           *)
(***************************************************************************)
MonitorUrl == Url("https", Ip4(1, 1, 1, 1))
PrivateUrl == Url("http", Ip4(10, 0, 0, 5))

ProcessResults ==
    {CheckResult("success",
        <<SslData(<<SslInfo(<<7>>, << >>)>>, << >>, <<"success">>, << >>,
                  <<"1.2.3.4">>, << >>)>>),
     CheckResult("success",
        <<SslData(<<SslInfo(<<0 - 3>>, << >>)>>, << >>, <<"invalid">>,
                  <<ErrorAlert("Certificate has expired")>>, <<"1.2.3.4">>, << >>)>>),
     CheckResult("success",
        <<SslData(<<SslInfo(<<40>>, << >>)>>, << >>, <<"success">>, << >>,
                  <<"1.2.3.4">>, << >>)>>)}

\* the alert_config argument: None, or a row with alerting on or off and
\* one of the account-level webhook URLs
ProcessConfigs ==
    {<< >>} \cup
    {<<[AllOnConfig EXCEPT !.enabled = en, !.webhook_url = url]>> :
        en \in BoolSet, url \in {NoUrl, EmptyUrl, PublicUrl, PrivateUrl}}

\* the monitors table: empty, a monitor of the domain with alerts on or off
\* and with or without its own URL, and monitors of another user and domain
ProcessMonitorTables ==
    {<< >>} \cup
    {<<MonitorRow(1, "example.com", en, url)>> :
        en \in BoolSet, url \in {NoUrl, EmptyUrl, MonitorUrl}} \cup
    {<<MonitorRow(2, "example.com", FALSE, MonitorUrl)>>,
     <<MonitorRow(1, "other.org", FALSE, MonitorUrl)>>}

\* the alerts table: empty, or holding an unresolved alert 12 hours old
ProcessAlertTables ==
    {<< >>,
     <<AlertRow(1, 1, "example.com", "expiring_soon", "medium",
                Msg("SSL certificate expiring in {} days", <<"8">>),
                FALSE, FALSE, 12, << >>)>>,
     <<AlertRow(1, 1, "example.com", "ssl_error", "high",
                Msg("SSL validation error", << >>), FALSE, FALSE, 12, << >>)>>}

ProcessOutcomes ==
    {Response(200), Response(500), Raises("Timeout"), Raises("ConnectionError")}

ProcessCall(user_id, domain, result, alert_config, done) ==
    [op |-> "process_ssl_check_alerts", user_id |-> user_id, domain |-> domain,
     result |-> result, alert_config |-> alert_config, done |-> done]

InitProcess ==
    /\ now = 24
    /\ alerts \in ProcessAlertTables
    /\ monitors \in ProcessMonitorTables
    /\ alert_configs = << >>
    /\ posts = << >>
    /\ ret = Ret("init", 0, "", << >>, << >>, << >>)
    /\ \E result \in ProcessResults, alert_config \in ProcessConfigs :
          /\ call = ProcessCall(1, "example.com", result, alert_config, FALSE)
          /\ ssl_checks = <<CheckRow(1, "example.com", 24, result)>>
    /\ WebhookIdle
    /\ ExpiryIdle
    /\ RaceIdle

\* the call of process_ssl_check_alerts(db, user_id, None, domain, result,
\* alert_config); the database and the receiver have an answer ready for each
\* finding the rules can raise, whether the run gets that far or not
ProcessSslCheckAlerts ==
    LET fs == IF call.alert_config = << >> THEN << >>
              ELSE Findings(DataOf(call.result), call.alert_config[1], ssl_checks,
                            now, call.user_id, call.domain)
    IN
    /\ call.op = "process_ssl_check_alerts"
    /\ ~ call.done
    /\ \E picks \in PickSeqs(alerts, now, call.user_id, call.domain, fs),
          outs \in [1..Len(fs) -> ProcessOutcomes] :
          LET r == process_ssl_check_alerts(alerts, ssl_checks, monitors, now,
                       call.user_id, call.domain, call.result, call.alert_config,
                       picks, [failed |-> TRUE, addrs |-> << >>], outs)
          IN /\ alerts' = r.alerts
             /\ posts' = r.posts
             /\ ret' = Ret("process_ssl_check_alerts", call.user_id, call.domain,
                           r.findings, r.ids, r.existing)
    /\ call' = [call EXCEPT !.done = TRUE]
    /\ UNCHANGED << now, ssl_checks, monitors, alert_configs, ex >>
    /\ UNCHANGED webhookVars
    /\ UNCHANGED raceVars

NextProcess == ProcessSslCheckAlerts

SpecProcess == InitProcess /\ [][NextProcess]_vars

\* the run is suppressed: no configuration, alerting off, or a monitor of the
\* owner and domain with alerts off
Suppressed ==
    \/ call.alert_config = << >>
    \/ ~ call.alert_config[1].enabled
    \/ \E j \in 1..Len(monitors) : /\ monitors[j].user_id = call.user_id
                                   /\ monitors[j].domain = call.domain
                                   /\ ~ monitors[j].alerts_enabled

\* C13: a suppressed run returns an empty list, leaves the alert table as it
\* was and sends no webhook, whatever the result and the other toggles; no
\* rule has been evaluated.
C13_SuppressedRunDoesNothing ==
    [][ (call'.done /\ ~ call.done /\ Suppressed) =>
            /\ ret'.ids = << >>
            /\ ret'.findings = << >>
            /\ alerts' = alerts
            /\ posts' = << >> ]_vars

\* a run on an expired certificate with alerting on and an account webhook has
\* returned nothing because the domain's monitor has alerts off
C13_Witness ==
    /\ call.done
    /\ call.alert_config # << >>
    /\ call.alert_config[1].enabled
    /\ call.alert_config[1].webhook_url = PublicUrl
    /\ Suppressed
    /\ DataOf(call.result).sslStatus = <<"invalid">>
    /\ ret.ids = << >>
    /\ posts = << >>

\* the monitors of the owner and domain of the call that carry a URL
MonitorsWithUrl ==
    {j \in 1..Len(monitors) : /\ monitors[j].user_id = call.user_id
                              /\ monitors[j].domain = call.domain
                              /\ monitors[j].webhook_url.kind = "url"}

\* the account-level URL is set
AccountUrlSet == call.alert_config[1].webhook_url.kind = "url"

\* C14: the URL of every send is the URL of the domain's monitor when that
\* monitor exists with a non-empty URL, and the account-level URL only
\* otherwise; alerts are sent to the monitor's URL whenever it is set.
C14_DomainUrlTakesPrecedence ==
    (call.done /\ ~ Suppressed) =>
        /\ \A i \in 1..Len(posts) :
              IF MonitorsWithUrl # {}
              THEN \E j \in MonitorsWithUrl : posts[i].url = monitors[j].webhook_url
              ELSE AccountUrlSet /\ posts[i].url = call.alert_config[1].webhook_url
        /\ (MonitorsWithUrl # {} /\ ret.ids # << >>) => posts # << >>

\* alerts were sent to the monitor's URL although an account-level URL is set
C14_Witness ==
    /\ call.done
    /\ posts # << >>
    /\ posts[1].url = MonitorUrl
    /\ call.alert_config[1].webhook_url = PublicUrl

\* C15: a run that returns k >= 1 alerts with a webhook URL configured makes
\* exactly k sends, the i-th for the i-th returned alert, each for an alert
\* already stored, refreshed alerts included; a run with no alert or no URL
\* makes none.
C15_OneSendPerReturnedAlert ==
    (call.done /\ ~ Suppressed) =>
        IF ret.ids # << >> /\ (MonitorsWithUrl # {} \/ AccountUrlSet)
        THEN /\ Len(posts) = Len(ret.ids)
             /\ \A i \in 1..Len(posts) :
                   /\ posts[i].alert_id = ret.ids[i]
                   /\ \E j \in 1..Len(alerts) : alerts[j].id = ret.ids[i]
        ELSE posts = << >>

\* two alerts were returned, one new and one refreshed, and two sends made
C15_Witness ==
    /\ call.done
    /\ ret.existing = <<FALSE, TRUE>>
    /\ Len(posts) = 2

\* C16: whatever the delivery outcomes, every alert the rules raised is
\* returned and every returned alert is stored, with the finding's type and
\* message and the hour of the run.
C16_DeliveryFailureKeepsAlerts ==
    (call.done /\ ~ Suppressed) =>
        /\ Len(ret.ids) = Len(ret.findings)
        /\ \A i \in 1..Len(ret.ids) :
              \E j \in 1..Len(alerts) :
                  /\ alerts[j].id = ret.ids[i]
                  /\ alerts[j].alert_type = ret.findings[i].alert_type
                  /\ alerts[j].message = ret.findings[i].message
                  /\ alerts[j].created_at = now

\* a delivery failed (no success) for an alert that is returned and stored
C16_Witness ==
    /\ call.done
    /\ \E i \in 1..Len(posts) :
          /\ ~ posts[i].success
          /\ posts[i].alert_id = ret.ids[i]
          /\ \E j \in 1..Len(alerts) : alerts[j].id = ret.ids[i]
    /\ \E i \in 1..Len(posts) : posts[i].posted /\ ~ posts[i].success
    /\ \E i \in 1..Len(ret.existing) : ~ ret.existing[i]

(***************************************************************************)
(* The account configuration: get_or_create_alert_config is called by the  *)
(* handlers of GET and POST /api/alert-config, the latter then updating    *)
(* the row.  Rows are never deleted here, so the primary key of a row is   *)
(* its position in the table.                                              *)
(***************************************************************************)
MaxConfigCalls == 4

ConfigUsers == {1, 2, 3}

\* the bodies of POST /api/alert-config: fields to set, as <<name, value>>
ConfigUpdates ==
    {<< >>, <<"enabled", FALSE>>, <<"alert_geo_changes", TRUE>>,
     <<"alert_30_days", FALSE>>}

\* setattr(config, field, value) for the field of the body, if any
ApplyUpdate(cfg, update) ==
    IF update = << >> THEN cfg
    ELSE IF update[1] = "enabled" THEN [cfg EXCEPT !.enabled = update[2]]
    ELSE IF update[1] = "alert_geo_changes" THEN [cfg EXCEPT !.alert_geo_changes = update[2]]
    ELSE IF update[1] = "alert_30_days" THEN [cfg EXCEPT !.alert_30_days = update[2]]
    ELSE cfg

\* the primary key of the row .filter(AlertConfig.user_id == user_id).first()
\* answers, 0 for None
ConfigIdOf(cfgs, user_id) ==
    LET m == {i \in 1..Len(cfgs) : cfgs[i].user_id = user_id}
    IN IF m = {} THEN 0 ELSE SetMin(m)

ConfigCall(op, user_id, id, config, n) ==
    [op |-> op, user_id |-> user_id, id |-> id, config |-> config, n |-> n]

InitConfig ==
    /\ now = 0
    /\ alerts = << >>
    /\ ssl_checks = << >>
    /\ monitors = << >>
    /\ alert_configs = << >>
    /\ posts = << >>
    /\ ret = Ret("init", 0, "", << >>, << >>, << >>)
    /\ call = ConfigCall("init", 0, 0, DefaultAlertConfig, 0)
    /\ WebhookIdle
    /\ ExpiryIdle
    /\ RaceIdle

\* GET /api/alert-config: get_or_create_alert_config(db, user.id, ...)
GetAlertConfig ==
    \E user_id \in ConfigUsers :
        LET cfgs == get_or_create_alert_config(alert_configs, user_id)
            id == ConfigIdOf(cfgs, user_id)
        IN /\ call.n < MaxConfigCalls
           /\ alert_configs' = cfgs
           /\ call' = ConfigCall("get_or_create_alert_config", user_id, id,
                                 cfgs[id].cfg, call.n + 1)
           /\ UNCHANGED << now, alerts, ssl_checks, monitors, posts, ret, ex >>
           /\ UNCHANGED webhookVars
           /\ UNCHANGED raceVars

\* POST /api/alert-config: get or create the row, then set the given fields
CreateOrUpdateAlertConfig ==
    \E user_id \in ConfigUsers, update \in ConfigUpdates :
        LET cfgs == get_or_create_alert_config(alert_configs, user_id)
            id == ConfigIdOf(cfgs, user_id)
            config == ApplyUpdate(cfgs[id].cfg, update)
        IN /\ call.n < MaxConfigCalls
           /\ alert_configs' = [cfgs EXCEPT ![id] = ConfigRow(user_id, config)]
           /\ call' = ConfigCall("create_or_update_alert_config", user_id, id,
                                 config, call.n + 1)
           /\ UNCHANGED << now, alerts, ssl_checks, monitors, posts, ret, ex >>
           /\ UNCHANGED webhookVars
           /\ UNCHANGED raceVars

NextConfig == GetAlertConfig \/ CreateOrUpdateAlertConfig

SpecConfig == InitConfig /\ [][NextConfig]_vars

\* the rows of a table that belong to a user
ConfigRowsOf(cfgs, user_id) == {i \in 1..Len(cfgs) : cfgs[i].user_id = user_id}

\* C17: a call of get_or_create_alert_config for a user without a row adds
\* one row, enabled and with every toggle on except geo-change, and returns
\* it; a call for a user with a row returns that row, with the same id, and
\* changes nothing; after every call each user has at most one row and the
\* user of the call exactly one.
C17_GetOrCreateAlertConfig ==
    [][(call'.n = call.n + 1 /\ call'.op = "get_or_create_alert_config") =>
          LET u == call'.user_id IN
          /\ IF ConfigRowsOf(alert_configs, u) = {}
             THEN /\ Len(alert_configs') = Len(alert_configs) + 1
                  /\ SubSeq(alert_configs', 1, Len(alert_configs)) = alert_configs
                  /\ call'.id = Len(alert_configs')
                  /\ alert_configs'[call'.id].user_id = u
                  /\ call'.config = [enabled |-> TRUE, alert_30_days |-> TRUE,
                                     alert_7_days |-> TRUE, alert_1_day |-> TRUE,
                                     alert_ssl_errors |-> TRUE,
                                     alert_geo_changes |-> FALSE,
                                     alert_cert_expired |-> TRUE,
                                     webhook_url |-> NoUrl]
             ELSE /\ alert_configs' = alert_configs
                  /\ ConfigRowsOf(alert_configs, u) = {call'.id}
          /\ alert_configs'[call'.id].cfg = call'.config
          /\ Cardinality(ConfigRowsOf(alert_configs', u)) = 1
          /\ \A v \in ConfigUsers : Cardinality(ConfigRowsOf(alert_configs', v)) <= 1
      ]_vars

\* a later call answered with the row of the user, which an update had
\* changed since its creation, while other users have rows too
C17_Witness ==
    /\ call.op = "get_or_create_alert_config"
    /\ call.n >= 3
    /\ Len(alert_configs) >= 2
    /\ call.id = 1
    /\ call.config.alert_geo_changes
    /\ alert_configs[1].cfg = call.config

(***************************************************************************)
(* The checker's day count: get_days_until_expiration of cert_utils.py.    *)
(* Instants are whole seconds since the epoch; the fraction of time.time() *)
(* is left out, it does not change which way the quotient is rounded.      *)
(***************************************************************************)
SecondsPerDay == 86400

MaxSpanDays == 2

\* int(x) of Python for the quotient a / b with b > 0: towards zero
IntOfQuotient(a, b) == IF a >= 0 THEN a \div b ELSE 0 - ((0 - a) \div b)

\* get_days_until_expiration(cert) called at the instant now_seconds, for
\* ssl.cert_time_to_seconds(cert['notAfter']) = exp_seconds
get_days_until_expiration(exp_seconds, now_seconds) ==
    IntOfQuotient(exp_seconds - now_seconds, SecondsPerDay)

\* the instants of the calls
NowSeconds == {1700000000, 1700043200, 1700086399}

\* notAfter relative to the call: whole days before and after, and exactly,
\* one second, half a day and a day less a second more than that
NotAfterOffsets ==
    {d * SecondsPerDay + r : d \in (0 - MaxSpanDays)..MaxSpanDays,
                             r \in {0, 1, 43200, 86399}}

DaysCall(exp_seconds, now_seconds, days, done) ==
    [op |-> "get_days_until_expiration", exp_seconds |-> exp_seconds,
     now_seconds |-> now_seconds, days |-> days, done |-> done]

InitDays ==
    /\ now = 0
    /\ alerts = << >>
    /\ ssl_checks = << >>
    /\ monitors = << >>
    /\ alert_configs = << >>
    /\ posts = << >>
    /\ ret = Ret("init", 0, "", << >>, << >>, << >>)
    /\ \E now_seconds \in NowSeconds, offset \in NotAfterOffsets :
          call = DaysCall(now_seconds + offset, now_seconds, 0, FALSE)
    /\ WebhookIdle
    /\ ExpiryIdle
    /\ RaceIdle

GetDaysUntilExpiration ==
    /\ ~ call.done
    /\ call' = [call EXCEPT
                  !.days = get_days_until_expiration(call.exp_seconds, call.now_seconds),
                  !.done = TRUE]
    /\ UNCHANGED << now, alerts, ssl_checks, monitors, alert_configs, posts, ret, ex >>
    /\ UNCHANGED webhookVars
    /\ UNCHANGED raceVars

NextDays == GetDaysUntilExpiration

SpecDays == InitDays /\ [][NextDays]_vars

\* C18: the day count is the floor of (notAfter - now) / 86400, and it is
\* negative whenever notAfter lies before the call.
C18_DaysIsFloor ==
    call.done =>
        /\ call.days * SecondsPerDay <= call.exp_seconds - call.now_seconds
        /\ call.exp_seconds - call.now_seconds < (call.days + 1) * SecondsPerDay
        /\ (call.exp_seconds < call.now_seconds => call.days < 0)

(***************************************************************************)
(* The checker's TLS probe: get_ssl_certificate_info of ssl_checker.py     *)
(* with parse_certificate and create_empty_cert_info of cert_utils.py.     *)
(* None is << >> and a value v is <<v>>; a list is a sequence, so the      *)
(* empty list is << << >> >> where it may also be None.                    *)
(***************************************************************************)
EXPIRATION_WARNING_THRESHOLD == 30
DEPRECATED_TLS_VERSIONS == {"TLSv1", "TLSv1.1"}

ALERT_CERT_EXPIRING_SOON == "Certificate expires soon"
ALERT_INSECURE_TLS == "Insecure TLS version"
ALERT_WEAK_SIGNATURE == "Weak signature algorithm"
ALERT_CN_MISMATCH == "Certificate CN/SAN does not match domain"
ALERT_CERT_EXPIRED == "Certificate has expired or is not yet valid"
ALERT_CERT_INVALID == "Certificate is invalid"
ALERT_SSL_HANDSHAKE_FAILED == "SSL handshake failed"
ALERT_SSL_CHECK_FAILED == "SSL check failed"

REC_RENEW_CERT_SOON == "Renew certificate soon"
REC_UPGRADE_TLS == "Upgrade to TLS 1.2 or higher"
REC_STRONGER_SIGNATURE == "Use stronger signature algorithm"
REC_MATCH_CN_SAN == "Ensure CN/SAN matches domain"
REC_RENEW_CERT == "Renew the certificate"
REC_CHECK_CERT_CONFIG == "Check certificate configuration"
REC_CHECK_SSL_CONFIG == "Check SSL/TLS configuration"
REC_CHECK_SERVER_CONFIG == "Check server configuration"

ERROR_CERT_INVALID == "CERTIFICATE_INVALID"
ERROR_CN_MISMATCH == "CN_MISMATCH"
ERROR_CERT_EXPIRED == "CERT_EXPIRED"
ERROR_SSL_ERROR == "SSL_ERROR"
ERROR_UNKNOWN == "UNKNOWN_ERROR"

STATUS_SUCCESS == "success"
STATUS_ERROR == "error"

\* the dictionary ssock.getpeercert() hands over: each key is present (<<v>>)
\* or missing (<< >>); notAfter stands for ssl.cert_time_to_seconds of it
PeerCert(subject, issuer, version, serialNumber, notBefore, notAfter, signatureAlgorithm, subjectAltName) ==
    [subject |-> subject, issuer |-> issuer, version |-> version,
     serialNumber |-> serialNumber, notBefore |-> notBefore,
     notAfter |-> notAfter, signatureAlgorithm |-> signatureAlgorithm,
     subjectAltName |-> subjectAltName]

\* the empty dictionary
EmptyPeerCert == PeerCert(<< >>, << >>, << >>, << >>, << >>, << >>, << >>, << >>)

\* certificate info, the dictionary parse_certificate builds
CertInfo(subject, issuer, version, serialNumber, notBefore, notAfter, signatureAlgorithm, tlsVersion, cipherSuite, subjectAltNames, daysUntilExpiration, alert_list) ==
    [subject |-> subject, issuer |-> issuer, version |-> version,
     serialNumber |-> serialNumber, notBefore |-> notBefore,
     notAfter |-> notAfter, signatureAlgorithm |-> signatureAlgorithm,
     tlsVersion |-> tlsVersion, cipherSuite |-> cipherSuite,
     subjectAltNames |-> subjectAltNames,
     daysUntilExpiration |-> daysUntilExpiration, alerts |-> alert_list]

\* a mutant of create_empty_cert_info: the alert list is dropped
CreateEmptyCertInfoDroppingAlerts(alert_list) ==
    CertInfo(<< >>, << >>, << >>, << >>, << >>, << >>, << >>, << >>, << >>,
             << << >> >>, << >>, << >>)

\* create_empty_cert_info: None everywhere, [] for subjectAltNames
create_empty_cert_info(alert_list) ==
    CertInfo(<< >>, << >>, << >>, << >>, << >>, << >>, << >>, << >>, << >>,
             << << >> >>, << >>, alert_list)

Parsed(raised, cert_info, alert_list, recommendations) ==
    [raised |-> raised, cert_info |-> cert_info, alerts |-> alert_list,
     recommendations |-> recommendations]

\* parse_certificate(cert, ssock) at the instant now_seconds: cipher_info is
\* ssock.cipher(), << >> or <<[name, version]>>; cert['notAfter'] raises
\* KeyError when the key is missing
parse_certificate(cert, cipher_info, now_seconds) ==
    IF cert.notAfter = << >>
    THEN Parsed(TRUE, create_empty_cert_info(<< >>), << >>, << >>)
    ELSE
    LET tls_version == IF cipher_info # << >> THEN <<cipher_info[1].version>> ELSE << >>
        cipher_suite == IF cipher_info # << >> THEN <<cipher_info[1].name>> ELSE << >>
        subject_alt_names == IF cert.subjectAltName # << >> THEN cert.subjectAltName
                             ELSE << << >> >>
        days == get_days_until_expiration(cert.notAfter[1], now_seconds)
        expiring == days < EXPIRATION_WARNING_THRESHOLD
        deprecated == tls_version # << >> /\ tls_version[1] \in DEPRECATED_TLS_VERSIONS
        weak == cert.signatureAlgorithm # << >> /\ cert.signatureAlgorithm[1].sha1
        alert_list == (IF expiring THEN <<ALERT_CERT_EXPIRING_SOON>> ELSE << >>)
                  \o (IF deprecated THEN <<ALERT_INSECURE_TLS>> ELSE << >>)
                  \o (IF weak THEN <<ALERT_WEAK_SIGNATURE>> ELSE << >>)
        recommendations ==
                  (IF expiring THEN <<REC_RENEW_CERT_SOON>> ELSE << >>)
                  \o (IF deprecated THEN <<REC_UPGRADE_TLS>> ELSE << >>)
                  \o (IF weak THEN <<REC_STRONGER_SIGNATURE>> ELSE << >>)
    IN Parsed(FALSE,
              CertInfo(cert.subject, cert.issuer, cert.version, cert.serialNumber,
                       cert.notBefore, cert.notAfter,
                       IF cert.signatureAlgorithm # << >>
                       THEN <<cert.signatureAlgorithm[1].name>> ELSE << >>,
                       tls_version, cipher_suite, subject_alt_names, <<days>>,
                       alert_list),
              alert_list, recommendations)

\* the outcome of create_ssl_connection: the exception raised, if any, with
\* the phrases its text holds, and what the socket answers otherwise
Connection(raises, phrases, cert, cipher_info, close_raises) ==
    [raises |-> raises, phrases |-> phrases, cert |-> cert,
     cipher_info |-> cipher_info, close_raises |-> close_raises]

\* _get_unverified_cert_info(domain, ip, port, alert_list)
get_unverified_cert_info(unverified, alert_list, now_seconds) ==
    IF unverified.raises # "" THEN create_empty_cert_info(alert_list)
    ELSE LET p == parse_certificate(unverified.cert, unverified.cipher_info, now_seconds)
         IN IF p.raised \/ unverified.close_raises THEN create_empty_cert_info(alert_list)
            ELSE [p.cert_info EXCEPT !.alerts = alert_list]

ProbeResult(cert_info, ssl_status, ssl_error_type, recommendations) ==
    [cert_info |-> cert_info, ssl_status |-> ssl_status,
     ssl_error_type |-> ssl_error_type, recommendations |-> recommendations]

\* a mutant of get_ssl_certificate_info: a handshake failure gets no error type
GetSslCertificateInfoUnclassified(verified, unverified, now_seconds) ==
    LET p == parse_certificate(verified.cert, verified.cipher_info, now_seconds)
        \* alert_list and recommendations when the handler is entered: those of
        \* parse_certificate if it returned before the exception
        parsed == verified.raises = "" /\ ~ p.raised
        alert_list == IF parsed THEN p.alerts ELSE << >>
        recommendations == IF parsed THEN p.recommendations ELSE << >>
    IN
    IF parsed /\ ~ verified.close_raises
    THEN ProbeResult(p.cert_info, STATUS_SUCCESS, << >>, recommendations)
    ELSE IF verified.raises = "CertificateError"
    THEN LET mismatch == verified.phrases \cap {"doesn't match", "common name", "hostname"} # {}
             expired == verified.phrases \cap {"expired", "not yet valid"} # {}
             alert == IF mismatch THEN ALERT_CN_MISMATCH
                      ELSE IF expired THEN ALERT_CERT_EXPIRED ELSE ALERT_CERT_INVALID
             rec == IF mismatch THEN REC_MATCH_CN_SAN
                    ELSE IF expired THEN REC_RENEW_CERT ELSE REC_CHECK_CERT_CONFIG
             type == IF mismatch THEN ERROR_CN_MISMATCH
                     ELSE IF expired THEN ERROR_CERT_EXPIRED ELSE ERROR_CERT_INVALID
         IN ProbeResult(get_unverified_cert_info(unverified, Append(alert_list, alert), now_seconds),
                        STATUS_ERROR, <<type>>, Append(recommendations, rec))
    ELSE IF verified.raises = "SSLError"
    THEN ProbeResult(create_empty_cert_info(Append(alert_list, ALERT_SSL_HANDSHAKE_FAILED)),
                     STATUS_ERROR, << >>,
                     Append(recommendations, REC_CHECK_SSL_CONFIG))
    ELSE ProbeResult(create_empty_cert_info(Append(alert_list, ALERT_SSL_CHECK_FAILED)),
                     STATUS_ERROR, <<ERROR_UNKNOWN>>,
                     Append(recommendations, REC_CHECK_SERVER_CONFIG))

\* get_ssl_certificate_info(domain, ip, port): verified and unverified are
\* the outcomes of the connection with and without verification
get_ssl_certificate_info(verified, unverified, now_seconds) ==
    LET p == parse_certificate(verified.cert, verified.cipher_info, now_seconds)
        \* alert_list and recommendations when the handler is entered: those of
        \* parse_certificate if it returned before the exception
        parsed == verified.raises = "" /\ ~ p.raised
        alert_list == IF parsed THEN p.alerts ELSE << >>
        recommendations == IF parsed THEN p.recommendations ELSE << >>
    IN
    IF parsed /\ ~ verified.close_raises
    THEN ProbeResult(p.cert_info, STATUS_SUCCESS, << >>, recommendations)
    ELSE IF verified.raises = "CertificateError"
    THEN LET mismatch == verified.phrases \cap {"doesn't match", "common name", "hostname"} # {}
             expired == verified.phrases \cap {"expired", "not yet valid"} # {}
             alert == IF mismatch THEN ALERT_CN_MISMATCH
                      ELSE IF expired THEN ALERT_CERT_EXPIRED ELSE ALERT_CERT_INVALID
             rec == IF mismatch THEN REC_MATCH_CN_SAN
                    ELSE IF expired THEN REC_RENEW_CERT ELSE REC_CHECK_CERT_CONFIG
             type == IF mismatch THEN ERROR_CN_MISMATCH
                     ELSE IF expired THEN ERROR_CERT_EXPIRED ELSE ERROR_CERT_INVALID
         IN ProbeResult(get_unverified_cert_info(unverified, Append(alert_list, alert), now_seconds),
                        STATUS_ERROR, <<type>>, Append(recommendations, rec))
    ELSE IF verified.raises = "SSLError"
    THEN ProbeResult(create_empty_cert_info(Append(alert_list, ALERT_SSL_HANDSHAKE_FAILED)),
                     STATUS_ERROR, <<ERROR_SSL_ERROR>>,
                     Append(recommendations, REC_CHECK_SSL_CONFIG))
    ELSE ProbeResult(create_empty_cert_info(Append(alert_list, ALERT_SSL_CHECK_FAILED)),
                     STATUS_ERROR, <<ERROR_UNKNOWN>>,
                     Append(recommendations, REC_CHECK_SERVER_CONFIG))

\* the instant of the probes
ProbeNow == 1700000000

SignatureAlgorithm(name, sha1) == [name |-> name, sha1 |-> sha1]

CipherInfo(name, version) == [name |-> name, version |-> version]

\* certificates a validated connection hands over: a healthy one, one that
\* expires in 10 days signed with SHA1, and one the parser cannot read
ValidatedPeerCerts ==
    {PeerCert(<<"CN=example.com">>, <<"CN=Example CA">>, <<3>>, <<"0A">>,
              <<ProbeNow - 100 * SecondsPerDay>>, <<ProbeNow + 100 * SecondsPerDay>>,
              <<SignatureAlgorithm("sha256WithRSAEncryption", FALSE)>>,
              << <<"example.com", "www.example.com">> >>),
     PeerCert(<<"CN=example.com">>, <<"CN=Example CA">>, <<3>>, <<"0B">>,
              <<ProbeNow - 100 * SecondsPerDay>>, <<ProbeNow + 10 * SecondsPerDay>>,
              <<SignatureAlgorithm("SHA1withRSA", TRUE)>>, << >>),
     PeerCert(<<"CN=example.com">>, <<"CN=Example CA">>, <<3>>, <<"0C">>,
              << >>, << >>, << >>, << >>)}

\* getpeercert() of a connection made with verify_mode = CERT_NONE answers
\* the empty dictionary for the certificate it did not validate
UnverifiedPeerCerts == {EmptyPeerCert}

CipherInfos ==
    {<<CipherInfo("ECDHE-RSA-AES128-GCM-SHA256", "TLSv1.2")>>,
     <<CipherInfo("AES128-SHA", "TLSv1")>>}

\* the phrases a CertificateError text may hold
ErrorPhrases == {{}, {"hostname"}, {"expired"}, {"hostname", "expired"}, {"not yet valid"}}

VerifiedConnections ==
    {Connection("", {}, cert, cipher_info, close_raises) :
        cert \in ValidatedPeerCerts, cipher_info \in CipherInfos, close_raises \in BOOLEAN}
    \cup {Connection("CertificateError", phrases, EmptyPeerCert, << >>, FALSE) :
            phrases \in ErrorPhrases}
    \cup {Connection(raises, {}, EmptyPeerCert, << >>, FALSE) :
            raises \in {"SSLError", "Exception"}}

UnverifiedConnections ==
    {Connection("", {}, cert, cipher_info, close_raises) :
        cert \in UnverifiedPeerCerts, cipher_info \in CipherInfos, close_raises \in BOOLEAN}
    \cup {Connection("Exception", {}, EmptyPeerCert, << >>, FALSE)}

ProbeCall(verified, unverified, result, done) ==
    [op |-> "get_ssl_certificate_info", verified |-> verified,
     unverified |-> unverified, result |-> result, done |-> done]

InitProbe ==
    /\ now = 0
    /\ alerts = << >>
    /\ ssl_checks = << >>
    /\ monitors = << >>
    /\ alert_configs = << >>
    /\ posts = << >>
    /\ ret = Ret("init", 0, "", << >>, << >>, << >>)
    /\ \E verified \in VerifiedConnections, unverified \in UnverifiedConnections :
          call = ProbeCall(verified, unverified,
                           ProbeResult(create_empty_cert_info(<< >>), "", << >>, << >>),
                           FALSE)
    /\ WebhookIdle
    /\ ExpiryIdle
    /\ RaceIdle

GetSslCertificateInfo ==
    /\ ~ call.done
    /\ call' = [call EXCEPT
                  !.result = get_ssl_certificate_info(call.verified, call.unverified, ProbeNow),
                  !.done = TRUE]
    /\ UNCHANGED << now, alerts, ssl_checks, monitors, alert_configs, posts, ret, ex >>
    /\ UNCHANGED webhookVars
    /\ UNCHANGED raceVars

NextProbe == GetSslCertificateInfo

SpecProbe == InitProbe /\ [][NextProbe]_vars

\* the probe failed completely: a handshake or protocol failure, an unknown
\* failure (one after the connection was made included), or a validation
\* failure whose retry without verification gave no certificate details
ProbeFailedCompletely ==
    \/ call.verified.raises \in {"SSLError", "Exception"}
    \/ /\ call.verified.raises = ""
       /\ (call.verified.cert.notAfter = << >> \/ call.verified.close_raises)
    \/ /\ call.verified.raises = "CertificateError"
       /\ \/ call.unverified.raises # ""
          \/ call.unverified.cert.notAfter = << >>
          \/ call.unverified.close_raises

\* every field of the certificate info but subjectAltNames and alerts is None
ScalarFieldsNull(info) ==
    /\ info.subject = << >> /\ info.issuer = << >> /\ info.version = << >>
    /\ info.serialNumber = << >> /\ info.notBefore = << >> /\ info.notAfter = << >>
    /\ info.signatureAlgorithm = << >> /\ info.tlsVersion = << >>
    /\ info.cipherSuite = << >> /\ info.daysUntilExpiration = << >>

\* the alerts that explain a failed probe
FailureAlerts ==
    {ALERT_CN_MISMATCH, ALERT_CERT_EXPIRED, ALERT_CERT_INVALID,
     ALERT_SSL_HANDSHAKE_FAILED, ALERT_SSL_CHECK_FAILED}

\* C19 as stated: after a probe that failed completely every field of the
\* certificate info is null except the alert list, which holds at least one
\* entry that explains the failure.
C19_AllNullOnTotalFailure ==
    (call.done /\ ProbeFailedCompletely) =>
        /\ ScalarFieldsNull(call.result.cert_info)
        /\ call.result.cert_info.subjectAltNames = << >>
        /\ \E i \in 1..Len(call.result.cert_info.alerts) :
              call.result.cert_info.alerts[i] \in FailureAlerts

\* C19 amended: after a probe that failed completely every field of the
\* certificate info is null except subjectAltNames, which is the empty list,
\* and the alert list, which holds at least one entry that explains the
\* failure.
C19_EmptyInfoOnTotalFailure ==
    (call.done /\ ProbeFailedCompletely) =>
        /\ ScalarFieldsNull(call.result.cert_info)
        /\ call.result.cert_info.subjectAltNames = << << >> >>
        /\ \E i \in 1..Len(call.result.cert_info.alerts) :
              call.result.cert_info.alerts[i] \in FailureAlerts

\* a validation failure (name mismatch) whose retry connected but gave no
\* certificate details
C19_Witness ==
    /\ call.done
    /\ call.verified.raises = "CertificateError"
    /\ call.unverified.raises = ""
    /\ ProbeFailedCompletely
    /\ call.result.cert_info.alerts = <<ALERT_CN_MISMATCH>>
    /\ call.result.ssl_error_type = <<ERROR_CN_MISMATCH>>

(***************************************************************************)
(* The resolver: resolve_domain_to_ip, the same code in network_utils.py   *)
(* of the monitor and of the checker.                                      *)
(***************************************************************************)
MaxAnswers == 2

\* the names asked for: an ordinary name, a name with a label of 64
\* characters, and a name with a null character
ResolveDomains == {"example.com", "label-of-64-characters.com", "null-character.com"}

ResolveAddrs == {"93.184.216.34", "10.0.0.5", "2.2.2.2"}

Returns(value) == [kind |-> "returns", value |-> value, exc |-> "", text |-> ""]

Raised(exc, text) == [kind |-> "raises", value |-> "", exc |-> exc, text |-> text]

\* what dns.resolver.resolve(domain, 'A') does: it answers one record or
\* more, or raises; a label of 64 characters cannot be put in a query
DnsQueryOutcomes(domain) ==
    IF domain = "label-of-64-characters.com"
    THEN {[raises |-> "LabelTooLong", answers |-> << >>]}
    ELSE {[raises |-> exc, answers |-> << >>] : exc \in {"NXDOMAIN", "Timeout", "NoAnswer"}}
         \cup {[raises |-> "", answers |-> a] :
                 a \in UNION {[1..n -> ResolveAddrs] : n \in 1..MaxAnswers}}

\* what socket.gethostbyname(domain) does: it returns an address or raises
\* gaierror; it raises UnicodeError for a label the idna codec refuses and
\* TypeError for a name with a null character
HostByNameOutcomes(domain) ==
    IF domain = "label-of-64-characters.com"
    THEN {Raised("UnicodeError", "encoding with 'idna' codec failed")}
    ELSE IF domain = "null-character.com"
    THEN {Raised("TypeError", "argument 1 must be encoded string without null bytes")}
    ELSE {Returns(a) : a \in ResolveAddrs} \cup {Raised("gaierror", "Name or service not known")}

\* resolve_domain_to_ip(domain), for the outcomes of the two lookups
resolve_domain_to_ip(dns_query, host_by_name) ==
    IF dns_query.raises = "" THEN Returns(dns_query.answers[1])
    ELSE IF host_by_name.kind = "returns" THEN host_by_name
    ELSE IF host_by_name.exc = "gaierror" THEN Raised("ValueError", "Cannot resolve domain")
    ELSE host_by_name

ResolveCall(domain, dns_query, host_by_name, result, done) ==
    [op |-> "resolve_domain_to_ip", domain |-> domain, dns_query |-> dns_query,
     host_by_name |-> host_by_name, result |-> result, done |-> done]

InitResolve ==
    /\ now = 0
    /\ alerts = << >>
    /\ ssl_checks = << >>
    /\ monitors = << >>
    /\ alert_configs = << >>
    /\ posts = << >>
    /\ ret = Ret("init", 0, "", << >>, << >>, << >>)
    /\ \E domain \in ResolveDomains :
          \E dns_query \in DnsQueryOutcomes(domain), host_by_name \in HostByNameOutcomes(domain) :
              call = ResolveCall(domain, dns_query, host_by_name, Returns(""), FALSE)
    /\ WebhookIdle
    /\ ExpiryIdle
    /\ RaceIdle

ResolveDomainToIp ==
    /\ ~ call.done
    /\ call' = [call EXCEPT
                  !.result = resolve_domain_to_ip(call.dns_query, call.host_by_name),
                  !.done = TRUE]
    /\ UNCHANGED << now, alerts, ssl_checks, monitors, alert_configs, posts, ret, ex >>
    /\ UNCHANGED webhookVars
    /\ UNCHANGED raceVars

NextResolve == ResolveDomainToIp

SpecResolve == InitResolve /\ [][NextResolve]_vars

\* C20: the function returns the first record of the DNS answer when the
\* query succeeds; when the query fails it returns the address of the
\* platform resolver if that lookup succeeds; otherwise it raises the
\* resolution error, ValueError "Cannot resolve domain", and nothing else.
C20_ResolveWithFallback ==
    call.done =>
        IF call.dns_query.raises = ""
        THEN call.result.kind = "returns" /\ call.result.value = call.dns_query.answers[1]
        ELSE IF call.host_by_name.kind = "returns"
        THEN call.result.kind = "returns" /\ call.result.value = call.host_by_name.value
        ELSE /\ call.result.kind = "raises"
             /\ call.result.exc = "ValueError"
             /\ call.result.text = "Cannot resolve domain"

(***************************************************************************)
(* The checker's API: check_single_target and batch_check of               *)
(* src/ssl-checker/api/main.py, with get_server_header and                 *)
(* get_ip_geolocation of src/ssl-checker/network_utils.py.  An absent or   *)
(* empty domain or address is "".  Every function also gives the steps it  *)
(* took: which function contacted which host.                              *)
(***************************************************************************)
DEFAULT_SSL_PORT == 443
UNKNOWN_SERVER == "Unknown"
STATUS_WARNING == "warning"

MSG_PROVIDE_TARGET == "Provide either domain or ip"
MSG_UNABLE_TO_RESOLVE == "Unable to resolve domain name"
MSG_GENERIC_ERROR == "An error occurred while checking SSL certificate. Please verify the domain/IP and try again."

Step(fn, host) == [fn |-> fn, host |-> host]

\* get_ip_geolocation(ip): the answer of the geolocation service is an
\* exception, a body with an 'error' key, or a body with the data
get_ip_geolocation(ip, geo) ==
    IF geo.kind = "data" THEN <<geo.data>> ELSE << >>

Fingerprint(server, steps) == [server |-> server, steps |-> steps]

\* get_server_header(domain, ip, port): https, http and banner are what the
\* three attempts find, << >> for an exception or no Server header and <<s>>
\* for the header s
get_server_header(domain, ip, https, http, banner) ==
    LET s1 == IF domain # "" THEN <<Step("requests.get https", domain)>> ELSE << >>
        target == IF domain # "" THEN domain ELSE ip
        s2 == Append(s1, Step("requests.get http", target))
        s3 == Append(s2, Step("socket.connect", ip))
    IN IF domain # "" /\ https # << >> /\ https[1] # "" THEN Fingerprint(https[1], s1)
       ELSE IF http # << >> /\ http[1] # "" THEN Fingerprint(http[1], s2)
       ELSE IF banner # << >> THEN Fingerprint(banner[1], s3)
       ELSE Fingerprint(UNKNOWN_SERVER, s3)

\* what the network answers for one target
TargetWorld(dns_query, host_by_name, verified, unverified, https, http, banner, geo) ==
    [dns_query |-> dns_query, host_by_name |-> host_by_name, verified |-> verified,
     unverified |-> unverified, https |-> https, http |-> http, banner |-> banner,
     geo |-> geo]

TargetData(domain, ip, port, ssl, server, ip_info, recommendations, sslStatus, serverStatus, ipStatus, sslErrorType) ==
    [domain |-> domain, ip |-> ip, port |-> port, ssl |-> ssl, server |-> server,
     ip_info |-> ip_info, recommendations |-> recommendations,
     sslStatus |-> sslStatus, serverStatus |-> serverStatus, ipStatus |-> ipStatus,
     sslErrorType |-> sslErrorType]

\* the dictionary check_single_target returns, and the steps it took
TargetResult(status, error, data, steps) ==
    [status |-> status, error |-> error, data |-> data, steps |-> steps]

\* a mutant of check_single_target: the probe is made at the address of the
\* request, not at the resolved one
CheckSingleTargetUnresolved(domain, ip, port, w, now_seconds) ==
    IF domain = "" /\ ip = ""
    THEN TargetResult(STATUS_ERROR, MSG_PROVIDE_TARGET, << >>, << >>)
    ELSE
    LET resolved == IF domain # "" THEN resolve_domain_to_ip(w.dns_query, w.host_by_name)
                    ELSE Returns(ip)
        s0 == IF domain # "" THEN <<Step("resolve_domain_to_ip", domain)>> ELSE << >>
    IN
    IF resolved.kind = "raises"
    THEN IF resolved.exc \in {"ValueError", "UnicodeError"}
         THEN IF resolved.text = "Cannot resolve domain"
              THEN TargetResult(STATUS_ERROR, MSG_UNABLE_TO_RESOLVE, << >>, s0)
              ELSE TargetResult(STATUS_ERROR, resolved.text, << >>, s0)
         ELSE TargetResult(STATUS_ERROR, MSG_GENERIC_ERROR, << >>, s0)
    ELSE
    LET ip2 == resolved.value
        probe == get_ssl_certificate_info(w.verified, w.unverified, now_seconds)
        fp == get_server_header(domain, ip2, w.https, w.http, w.banner)
        ip_info == get_ip_geolocation(ip2, w.geo)
        server_status == IF fp.server # UNKNOWN_SERVER THEN STATUS_SUCCESS
                         ELSE IF probe.ssl_status = STATUS_ERROR THEN STATUS_WARNING
                         ELSE STATUS_ERROR
        ip_status == IF ip_info # << >> THEN STATUS_SUCCESS ELSE STATUS_ERROR
    IN TargetResult(STATUS_SUCCESS, "",
          <<TargetData(domain, ip2, port, probe.cert_info, fp.server, ip_info,
                       probe.recommendations, probe.ssl_status, server_status,
                       ip_status, probe.ssl_error_type)>>,
          s0 \o <<Step("get_ssl_certificate_info", ip)>> \o fp.steps
             \o <<Step("get_ip_geolocation", ip2)>>)

\* a mutant of check_single_target: serverStatus is never warning
CheckSingleTargetNoWarning(domain, ip, port, w, now_seconds) ==
    IF domain = "" /\ ip = ""
    THEN TargetResult(STATUS_ERROR, MSG_PROVIDE_TARGET, << >>, << >>)
    ELSE
    LET resolved == IF domain # "" THEN resolve_domain_to_ip(w.dns_query, w.host_by_name)
                    ELSE Returns(ip)
        s0 == IF domain # "" THEN <<Step("resolve_domain_to_ip", domain)>> ELSE << >>
    IN
    IF resolved.kind = "raises"
    THEN IF resolved.exc \in {"ValueError", "UnicodeError"}       \* except ValueError
         THEN IF resolved.text = "Cannot resolve domain"
              THEN TargetResult(STATUS_ERROR, MSG_UNABLE_TO_RESOLVE, << >>, s0)
              ELSE TargetResult(STATUS_ERROR, resolved.text, << >>, s0)
         ELSE TargetResult(STATUS_ERROR, MSG_GENERIC_ERROR, << >>, s0)
    ELSE
    LET ip2 == resolved.value
        probe == get_ssl_certificate_info(w.verified, w.unverified, now_seconds)
        fp == get_server_header(domain, ip2, w.https, w.http, w.banner)
        ip_info == get_ip_geolocation(ip2, w.geo)
        server_status == IF fp.server # UNKNOWN_SERVER THEN STATUS_SUCCESS
                         ELSE IF probe.ssl_status = STATUS_ERROR THEN STATUS_ERROR
                         ELSE STATUS_ERROR
        ip_status == IF ip_info # << >> THEN STATUS_SUCCESS ELSE STATUS_ERROR
    IN TargetResult(STATUS_SUCCESS, "",
          <<TargetData(domain, ip2, port, probe.cert_info, fp.server, ip_info,
                       probe.recommendations, probe.ssl_status, server_status,
                       ip_status, probe.ssl_error_type)>>,
          s0 \o <<Step("get_ssl_certificate_info", ip2)>> \o fp.steps
             \o <<Step("get_ip_geolocation", ip2)>>)

\* check_single_target(domain, ip, port) at the instant now_seconds, in the
\* world w
check_single_target(domain, ip, port, w, now_seconds) ==
    IF domain = "" /\ ip = ""
    THEN TargetResult(STATUS_ERROR, MSG_PROVIDE_TARGET, << >>, << >>)
    ELSE
    LET resolved == IF domain # "" THEN resolve_domain_to_ip(w.dns_query, w.host_by_name)
                    ELSE Returns(ip)
        s0 == IF domain # "" THEN <<Step("resolve_domain_to_ip", domain)>> ELSE << >>
    IN
    IF resolved.kind = "raises"
    THEN IF resolved.exc \in {"ValueError", "UnicodeError"}       \* except ValueError
         THEN IF resolved.text = "Cannot resolve domain"
              THEN TargetResult(STATUS_ERROR, MSG_UNABLE_TO_RESOLVE, << >>, s0)
              ELSE TargetResult(STATUS_ERROR, resolved.text, << >>, s0)
         ELSE TargetResult(STATUS_ERROR, MSG_GENERIC_ERROR, << >>, s0)
    ELSE
    LET ip2 == resolved.value
        probe == get_ssl_certificate_info(w.verified, w.unverified, now_seconds)
        fp == get_server_header(domain, ip2, w.https, w.http, w.banner)
        ip_info == get_ip_geolocation(ip2, w.geo)
        server_status == IF fp.server # UNKNOWN_SERVER THEN STATUS_SUCCESS
                         ELSE IF probe.ssl_status = STATUS_ERROR THEN STATUS_WARNING
                         ELSE STATUS_ERROR
        ip_status == IF ip_info # << >> THEN STATUS_SUCCESS ELSE STATUS_ERROR
    IN TargetResult(STATUS_SUCCESS, "",
          <<TargetData(domain, ip2, port, probe.cert_info, fp.server, ip_info,
                       probe.recommendations, probe.ssl_status, server_status,
                       ip_status, probe.ssl_error_type)>>,
          s0 \o <<Step("get_ssl_certificate_info", ip2)>> \o fp.steps
             \o <<Step("get_ip_geolocation", ip2)>>)

\* the targets of a single check
TargetDomains == ResolveDomains \cup {""}
TargetIps == {"", "93.184.216.34"}

\* the DNS answers of a single check: one record at most
TargetDnsOutcomes(domain) ==
    {q \in DnsQueryOutcomes(domain) :
        Len(q.answers) <= 1 /\ q.raises \in {"", "NXDOMAIN", "LabelTooLong"}}

\* the probes of a single check: a healthy certificate, a name mismatch, a
\* failed handshake and a refused connection
TargetVerified ==
    {c \in VerifiedConnections :
        /\ c.raises = "" => /\ ~ c.close_raises
                            /\ c.cert.serialNumber = <<"0A">>
                            /\ c.cipher_info[1].version = "TLSv1.2"
        /\ c.raises = "CertificateError" => c.phrases = {"hostname"}}

TargetUnverified ==
    {c \in UnverifiedConnections :
        c.raises = "" => (~ c.close_raises /\ c.cipher_info[1].version = "TLSv1.2")}

HeaderAnswers == {<< >>, <<"nginx">>}
BannerAnswers == {<< >>, <<"">>, <<"Apache">>}

GeoAnswer(kind, country) == [kind |-> kind, data |-> [country |-> country]]

GeoAnswers == {GeoAnswer("raises", ""), GeoAnswer("error", ""),
               GeoAnswer("data", "United States")}

TargetWorlds(domain) ==
    {TargetWorld(q, h, v, u, https, http, banner, geo) :
        q \in IF domain = "" THEN {[raises |-> "NXDOMAIN", answers |-> << >>]}
              ELSE TargetDnsOutcomes(domain),
        h \in IF domain = "" THEN {Raised("gaierror", "Name or service not known")}
              ELSE HostByNameOutcomes(domain),
        v \in TargetVerified, u \in TargetUnverified,
        https \in HeaderAnswers, http \in HeaderAnswers, banner \in BannerAnswers,
        geo \in GeoAnswers}

TargetCall(domain, ip, world, result, done) ==
    [op |-> "check_single_target", domain |-> domain, ip |-> ip, world |-> world,
     result |-> result, done |-> done]

InitTarget ==
    /\ now = 0
    /\ alerts = << >>
    /\ ssl_checks = << >>
    /\ monitors = << >>
    /\ alert_configs = << >>
    /\ posts = << >>
    /\ ret = Ret("init", 0, "", << >>, << >>, << >>)
    /\ \E domain \in TargetDomains, ip \in TargetIps :
          \E world \in TargetWorlds(domain) :
              call = TargetCall(domain, ip, world,
                                TargetResult("", "", << >>, << >>), FALSE)
    /\ WebhookIdle
    /\ ExpiryIdle
    /\ RaceIdle

\* GET /api/check: check_single_target(domain, ip, port)
CheckSingleTarget ==
    /\ ~ call.done
    /\ call' = [call EXCEPT
                  !.result = check_single_target(call.domain, call.ip, DEFAULT_SSL_PORT,
                                                 call.world, ProbeNow),
                  !.done = TRUE]
    /\ UNCHANGED << now, alerts, ssl_checks, monitors, alert_configs, posts, ret, ex >>
    /\ UNCHANGED webhookVars
    /\ UNCHANGED raceVars

NextTarget == CheckSingleTarget

SpecTarget == InitTarget /\ [][NextTarget]_vars

\* C22: every result has status success or error, and the message of an
\* error result is one of the three fixed strings, whatever failed.
C22_ErrorsAreSanitized ==
    call.done =>
        /\ call.result.status \in {STATUS_SUCCESS, STATUS_ERROR}
        /\ call.result.status = STATUS_ERROR =>
              call.result.error \in {MSG_PROVIDE_TARGET, MSG_UNABLE_TO_RESOLVE,
                                     MSG_GENERIC_ERROR}

\* the address the resolver found for the domain of the call: the first DNS
\* record, or the platform resolver's answer
ResolvedAddress ==
    IF call.world.dns_query.raises = "" THEN call.world.dns_query.answers[1]
    ELSE call.world.host_by_name.value

\* a call without a target contacts nothing; a call with a domain resolves
\* it first, and once only
ResolvedFirst ==
    /\ (call.domain = "" /\ call.ip = "") =>
          call.result.status = STATUS_ERROR /\ call.result.steps = << >>
    /\ call.domain # "" =>
          /\ call.result.steps # << >>
          /\ call.result.steps[1] = Step("resolve_domain_to_ip", call.domain)
          /\ \A i \in 2..Len(call.result.steps) :
                call.result.steps[i].fn # "resolve_domain_to_ip"

\* C23 as stated: a call without a target contacts nothing; a call with a
\* domain resolves it first and every later step contacts the resolved
\* address.
C23_EveryStepUsesResolvedAddress ==
    call.done =>
        /\ ResolvedFirst
        /\ (call.domain # "" /\ call.result.status = STATUS_SUCCESS) =>
              \A i \in 2..Len(call.result.steps) :
                  call.result.steps[i].host = ResolvedAddress

\* C23 amended: a call without a target contacts nothing; a call with a
\* domain resolves it first; the TLS probe, the geolocation lookup and the
\* banner grab contact the resolved address, which is the address of the
\* result, while the HTTPS and HTTP requests of the fingerprinter name the
\* domain.
C23_ProbeAndGeoUseResolvedAddress ==
    call.done =>
        /\ ResolvedFirst
        /\ (call.domain # "" /\ call.result.status = STATUS_SUCCESS) =>
              /\ call.result.data[1].ip = ResolvedAddress
              /\ \E i \in 2..Len(call.result.steps) :
                    call.result.steps[i] = Step("get_ssl_certificate_info", ResolvedAddress)
              /\ \E i \in 2..Len(call.result.steps) :
                    call.result.steps[i] = Step("get_ip_geolocation", ResolvedAddress)
              /\ \A i \in 2..Len(call.result.steps) :
                    IF call.result.steps[i].fn \in {"requests.get https", "requests.get http"}
                    THEN call.result.steps[i].host = call.domain
                    ELSE call.result.steps[i].host = ResolvedAddress

\* a domain was checked in a request that also named another address, and
\* all three fingerprint attempts were made
C23_Witness ==
    /\ call.done
    /\ call.domain = "example.com"
    /\ call.ip = "93.184.216.34"
    /\ call.result.status = STATUS_SUCCESS
    /\ ResolvedAddress = "10.0.0.5"
    /\ \E i \in 1..Len(call.result.steps) : call.result.steps[i].fn = "socket.connect"

(***************************************************************************)
(* batch_check: the targets of a request are checked one after the other.  *)
(* What the network answers is fixed by the name of the target.            *)
(***************************************************************************)
MaxBatch == 2

BatchDomains == {"example.com", "badcert.example", "unresolvable.example",
                 "label-of-64-characters.com", "null-character.com", ""}

BatchIps == {"93.184.216.34", "10.0.0.5", ""}

HealthyConnection ==
    CHOOSE c \in TargetVerified : c.raises = ""

\* the world of a target: example.com and 93.184.216.34 answer with a healthy
\* certificate, badcert.example with a name mismatch, 10.0.0.5 refuses the
\* connection, and the other names do not resolve
WorldOf(target) ==
    LET refused == Connection("Exception", {}, EmptyPeerCert, << >>, FALSE)
        mismatch == Connection("CertificateError", {"hostname"}, EmptyPeerCert, << >>, FALSE)
        nxdomain == [raises |-> "NXDOMAIN", answers |-> << >>]
        gaierror == Raised("gaierror", "Name or service not known")
    IN CASE target = "example.com" ->
              TargetWorld([raises |-> "", answers |-> <<"93.184.216.34">>], gaierror,
                          HealthyConnection, refused, <<"nginx">>, << >>, << >>,
                          GeoAnswer("data", "United States"))
         [] target = "badcert.example" ->
              TargetWorld(nxdomain, Returns("2.2.2.2"), mismatch, refused,
                          << >>, << >>, << >>, GeoAnswer("error", ""))
         [] target = "label-of-64-characters.com" ->
              TargetWorld([raises |-> "LabelTooLong", answers |-> << >>],
                          Raised("UnicodeError", "encoding with 'idna' codec failed"),
                          refused, refused, << >>, << >>, << >>, GeoAnswer("raises", ""))
         [] target = "null-character.com" ->
              TargetWorld(nxdomain,
                          Raised("TypeError", "argument 1 must be encoded string without null bytes"),
                          refused, refused, << >>, << >>, << >>, GeoAnswer("raises", ""))
         [] target = "93.184.216.34" ->
              TargetWorld(nxdomain, gaierror, HealthyConnection, refused,
                          << >>, <<"nginx">>, << >>, GeoAnswer("data", "United States"))
         [] OTHER ->
              TargetWorld(nxdomain, gaierror, refused, refused, << >>, << >>, << >>,
                          GeoAnswer("raises", ""))

BatchResult(status, results) == [status |-> status, results |-> results]

\* a mutant of batch_check: the loop ends at the first target that fails
BatchCheckStoppingAtFailure(domains, ips, port, now_seconds) ==
    LET n == Len(domains)
        all == [i \in 1..(n + Len(ips)) |->
                   IF i <= n
                   THEN check_single_target(domains[i], "", port, WorldOf(domains[i]), now_seconds)
                   ELSE check_single_target("", ips[i - n], port, WorldOf(ips[i - n]), now_seconds)]
        failed == {i \in 1..Len(all) : all[i].status = STATUS_ERROR}
    IN BatchResult(STATUS_SUCCESS,
                   IF failed = {} THEN all ELSE SubSeq(all, 1, SetMin(failed)))

\* batch_check(request): the results of the domains, then those of the
\* addresses
batch_check(domains, ips, port, now_seconds) ==
    LET n == Len(domains)
    IN BatchResult(STATUS_SUCCESS,
          [i \in 1..(n + Len(ips)) |->
              IF i <= n
              THEN check_single_target(domains[i], "", port, WorldOf(domains[i]), now_seconds)
              ELSE check_single_target("", ips[i - n], port, WorldOf(ips[i - n]), now_seconds)])

BatchCall(domains, ips, result, done) ==
    [op |-> "batch_check", domains |-> domains, ips |-> ips, result |-> result,
     done |-> done]

InitBatch ==
    /\ now = 0
    /\ alerts = << >>
    /\ ssl_checks = << >>
    /\ monitors = << >>
    /\ alert_configs = << >>
    /\ posts = << >>
    /\ ret = Ret("init", 0, "", << >>, << >>, << >>)
    /\ \E domains \in UNION {[1..n -> BatchDomains] : n \in 0..MaxBatch},
          ips \in UNION {[1..n -> BatchIps] : n \in 0..MaxBatch} :
          call = BatchCall(domains, ips, BatchResult("", << >>), FALSE)
    /\ WebhookIdle
    /\ ExpiryIdle
    /\ RaceIdle

\* POST /api/batch_check
BatchCheck ==
    /\ ~ call.done
    /\ call' = [call EXCEPT
                  !.result = batch_check(call.domains, call.ips, DEFAULT_SSL_PORT, ProbeNow),
                  !.done = TRUE]
    /\ UNCHANGED << now, alerts, ssl_checks, monitors, alert_configs, posts, ret, ex >>
    /\ UNCHANGED webhookVars
    /\ UNCHANGED raceVars

NextBatch == BatchCheck

SpecBatch == InitBatch /\ [][NextBatch]_vars

\* the targets whose check fails as a whole, and those whose probe fails
FailingTargets == {"unresolvable.example", "label-of-64-characters.com",
                   "null-character.com", ""}
FailingProbes == {"badcert.example", "10.0.0.5"}

\* the result r is what the target alone gives: an error result for a target
\* that fails, and otherwise a success result that names the target and tags
\* the probe as it went for that target
ResultOfTarget(r, target, isDomain) ==
    IF target \in FailingTargets
    THEN r.status = STATUS_ERROR /\ r.data = << >>
    ELSE /\ r.status = STATUS_SUCCESS
         /\ r.error = ""
         /\ IF isDomain THEN r.data[1].domain = target
            ELSE r.data[1].ip = target /\ r.data[1].domain = ""
         /\ r.data[1].sslStatus =
               IF target \in FailingProbes THEN STATUS_ERROR ELSE STATUS_SUCCESS

\* C21: a batch of N domains and M addresses gives N + M results, those of
\* the domains first and in the order of the request; each result is what
\* its target alone gives, whatever the other targets did.
C21_BatchResultsIndependent ==
    call.done =>
        LET n == Len(call.domains)
            m == Len(call.ips)
            results == call.result.results
        IN /\ Len(results) = n + m
           /\ \A i \in 1..n : ResultOfTarget(results[i], call.domains[i], TRUE)
           /\ \A j \in 1..m : ResultOfTarget(results[n + j], call.ips[j], FALSE)

\* a batch whose first target does not resolve, followed by a healthy domain
\* and by an address
C21_Witness ==
    /\ call.done
    /\ Len(call.domains) = 2
    /\ call.domains[1] \in FailingTargets
    /\ call.domains[2] = "example.com"
    /\ call.ips # << >>
    /\ call.result.results[2].status = STATUS_SUCCESS
    /\ Len(call.result.results) = 2 + Len(call.ips)

(***************************************************************************)
(* Per-user isolation: the endpoints of src/ssl-monitor/api/main.py that   *)
(* read and change the checks, monitors and alerts of the authenticated    *)
(* user.  Each handler is an operator on the tables; user_id is user.id of *)
(* the authenticated user.                                                 *)
(***************************************************************************)
Reverse(seq) == [i \in 1..Len(seq) |-> seq[Len(seq) + 1 - i]]

\* GET /api/history: the user's checks, of one domain if asked, latest first
get_history(checks, user_id, domain) ==
    Reverse(SelectSeq(checks, LAMBDA c : /\ c.user_id = user_id
                                         /\ (domain # "" => c.domain = domain)))

Stats(total_checks, successful_checks, error_checks, unique_domains) ==
    [total_checks |-> total_checks, successful_checks |-> successful_checks,
     error_checks |-> error_checks, unique_domains |-> unique_domains]

\* GET /api/stats
get_stats(checks, user_id) ==
    LET mine == SelectSeq(checks, LAMBDA c : c.user_id = user_id)
    IN Stats(Len(mine),
             Len(SelectSeq(mine, LAMBDA c : c.response_data.status = "success")),
             Len(SelectSeq(mine, LAMBDA c : c.response_data.status = "error")),
             Cardinality({mine[i].domain : i \in 1..Len(mine)}))

\* GET /api/domains: the latest check of each domain of the user, latest
\* first
get_domains(checks, user_id) ==
    Reverse(SelectSeq(checks, LAMBDA c :
        /\ c.user_id = user_id
        /\ \A i \in 1..Len(checks) :
              (checks[i].user_id = user_id /\ checks[i].domain = c.domain)
                  => checks[i].checked_at <= c.checked_at))

\* GET /api/monitors
get_monitors(mons, user_id) == SelectSeq(mons, LAMBDA m : m.user_id = user_id)

\* GET /api/alerts, latest first
get_alerts(tbl, user_id, unread_only, unresolved_only) ==
    Reverse(SelectSeq(tbl, LAMBDA a : /\ a.user_id = user_id
                                      /\ (unread_only => ~ a.is_read)
                                      /\ (unresolved_only => ~ a.is_resolved)))

Changed(status, checks, mons, tbl, rows) ==
    [status |-> status, ssl_checks |-> checks, monitors |-> mons, alerts |-> tbl,
     rows |-> rows]

\* DELETE /api/domains/{domain}
delete_domain(checks, mons, tbl, user_id, domain) ==
    Changed(200,
            SelectSeq(checks, LAMBDA c : ~ (c.user_id = user_id /\ c.domain = domain)),
            mons,
            SelectSeq(tbl, LAMBDA a : ~ (a.user_id = user_id /\ a.domain = domain)),
            << >>)

\* the position of the first monitor of the user and domain, 0 for None
MonitorIndex(mons, user_id, domain) ==
    LET m == {i \in 1..Len(mons) : mons[i].user_id = user_id /\ mons[i].domain = domain}
    IN IF m = {} THEN 0 ELSE SetMin(m)

\* POST /api/monitors
create_or_update_monitor(checks, mons, tbl, user_id, domain, alerts_enabled, url) ==
    LET i == MonitorIndex(mons, user_id, domain)
        row == MonitorRow(user_id, domain, alerts_enabled, url)
    IN IF i # 0 THEN Changed(200, checks, [mons EXCEPT ![i] = row], tbl, <<row>>)
       ELSE Changed(200, checks, Append(mons, row), tbl, <<row>>)

\* PATCH /api/monitors/{domain} with a body that sets alerts_enabled
update_monitor(checks, mons, tbl, user_id, domain, alerts_enabled) ==
    LET i == MonitorIndex(mons, user_id, domain)
    IN IF i = 0 THEN Changed(404, checks, mons, tbl, << >>)
       ELSE Changed(200, checks, [mons EXCEPT ![i].alerts_enabled = alerts_enabled], tbl,
                    <<[mons[i] EXCEPT !.alerts_enabled = alerts_enabled]>>)

\* DELETE /api/monitors/{domain}
delete_monitor(checks, mons, tbl, user_id, domain) ==
    LET i == MonitorIndex(mons, user_id, domain)
    IN IF i = 0 THEN Changed(404, checks, mons, tbl, << >>)
       ELSE Changed(200, checks, SubSeq(mons, 1, i - 1) \o SubSeq(mons, i + 1, Len(mons)),
                    tbl, << >>)

\* a mutant of mark_alert_resolved: the alert is looked up by its id alone
MarkAlertResolvedOfAnyone(checks, mons, tbl, user_id, alert_id, t) ==
    LET m == {j \in 1..Len(tbl) : tbl[j].id = alert_id}
        i == IF m = {} THEN 0 ELSE SetMin(m)
    IN IF i = 0 THEN Changed(404, checks, mons, tbl, << >>)
       ELSE LET row == [tbl[i] EXCEPT !.is_resolved = TRUE, !.resolved_at = <<t>>]
            IN Changed(200, checks, mons, [tbl EXCEPT ![i] = row], <<row>>)

\* PATCH /api/alerts/{alert_id}/resolve
mark_alert_resolved(checks, mons, tbl, user_id, alert_id, t) ==
    LET i == AlertOf(tbl, alert_id, user_id)
    IN IF i = 0 THEN Changed(404, checks, mons, tbl, << >>)
       ELSE LET row == [tbl[i] EXCEPT !.is_resolved = TRUE, !.resolved_at = <<t>>]
            IN Changed(200, checks, mons, [tbl EXCEPT ![i] = row], <<row>>)

\* PATCH /api/alerts/{alert_id}/read
mark_alert_read(checks, mons, tbl, user_id, alert_id) ==
    LET i == AlertOf(tbl, alert_id, user_id)
    IN IF i = 0 THEN Changed(404, checks, mons, tbl, << >>)
       ELSE LET row == [tbl[i] EXCEPT !.is_read = TRUE]
            IN Changed(200, checks, mons, [tbl EXCEPT ![i] = row], <<row>>)

\* DELETE /api/alerts/{alert_id}
delete_alert(checks, mons, tbl, user_id, alert_id) ==
    LET i == AlertOf(tbl, alert_id, user_id)
    IN IF i = 0 THEN Changed(404, checks, mons, tbl, << >>)
       ELSE Changed(200, checks, mons,
                    SubSeq(tbl, 1, i - 1) \o SubSeq(tbl, i + 1, Len(tbl)), << >>)

IsoDomains == {"a.com", "b.com"}

IsoAlertIds == 1..3

IsoCall(op, user_id, alert_id, status, rows, stats) ==
    [op |-> op, user_id |-> user_id, alert_id |-> alert_id, status |-> status,
     rows |-> rows, stats |-> stats]

\* both users have checked a.com, the second one b.com too; each has an
\* alert, and the second user a monitor
InitIso ==
    /\ now = 24
    /\ ssl_checks = <<CheckRow(1, "a.com", 1, CheckResult("success", << >>)),
                      CheckRow(2, "a.com", 2, CheckResult("success", << >>)),
                      CheckRow(2, "b.com", 3, CheckResult("error", << >>))>>
    /\ alerts = <<AlertRow(1, 1, "a.com", "expired", "critical",
                           Msg("SSL certificate has expired {} days ago", <<"3">>),
                           FALSE, FALSE, 1, << >>),
                  AlertRow(2, 2, "a.com", "expired", "critical",
                           Msg("SSL certificate has expired {} days ago", <<"3">>),
                           FALSE, FALSE, 2, << >>)>>
    /\ monitors = <<MonitorRow(2, "a.com", TRUE, NoUrl)>>
    /\ alert_configs = << >>
    /\ posts = << >>
    /\ ret = Ret("init", 0, "", << >>, << >>, << >>)
    /\ call = IsoCall("init", 0, 0, 200, << >>, Stats(0, 0, 0, 0))
    /\ WebhookIdle
    /\ ExpiryIdle
    /\ RaceIdle

\* a read endpoint answers rows and leaves the tables alone
IsoRead(op, user_id, rows, stats) ==
    /\ call' = IsoCall(op, user_id, 0, 200, rows, stats)
    /\ UNCHANGED << now, alerts, ssl_checks, monitors, alert_configs, posts, ret, ex >>
    /\ UNCHANGED webhookVars
    /\ UNCHANGED raceVars

\* a mutating endpoint commits what the handler made of the tables
IsoWrite(op, user_id, alert_id, r) ==
    /\ call' = IsoCall(op, user_id, alert_id, r.status, r.rows, Stats(0, 0, 0, 0))
    /\ ssl_checks' = r.ssl_checks
    /\ monitors' = r.monitors
    /\ alerts' = r.alerts
    /\ UNCHANGED << now, alert_configs, posts, ret, ex >>
    /\ UNCHANGED webhookVars
    /\ UNCHANGED raceVars

GetHistory ==
    \E user_id \in Users, domain \in IsoDomains \cup {""} :
        IsoRead("get_history", user_id, get_history(ssl_checks, user_id, domain),
                Stats(0, 0, 0, 0))

GetStats ==
    \E user_id \in Users :
        IsoRead("get_stats", user_id, << >>, get_stats(ssl_checks, user_id))

GetDomains ==
    \E user_id \in Users :
        IsoRead("get_domains", user_id, get_domains(ssl_checks, user_id), Stats(0, 0, 0, 0))

GetMonitors ==
    \E user_id \in Users :
        IsoRead("get_monitors", user_id, get_monitors(monitors, user_id), Stats(0, 0, 0, 0))

GetAlerts ==
    \E user_id \in Users, unread_only \in BOOLEAN, unresolved_only \in BOOLEAN :
        IsoRead("get_alerts", user_id,
                get_alerts(alerts, user_id, unread_only, unresolved_only),
                Stats(0, 0, 0, 0))

DeleteDomain ==
    \E user_id \in Users, domain \in IsoDomains :
        IsoWrite("delete_domain", user_id, 0,
                 delete_domain(ssl_checks, monitors, alerts, user_id, domain))

CreateOrUpdateMonitor ==
    \E user_id \in Users, alerts_enabled \in BOOLEAN :
        IsoWrite("create_or_update_monitor", user_id, 0,
                 create_or_update_monitor(ssl_checks, monitors, alerts, user_id, "a.com",
                                          alerts_enabled, NoUrl))

UpdateMonitor ==
    \E user_id \in Users, domain \in IsoDomains, alerts_enabled \in BOOLEAN :
        IsoWrite("update_monitor", user_id, 0,
                 update_monitor(ssl_checks, monitors, alerts, user_id, domain, alerts_enabled))

DeleteMonitor ==
    \E user_id \in Users, domain \in IsoDomains :
        IsoWrite("delete_monitor", user_id, 0,
                 delete_monitor(ssl_checks, monitors, alerts, user_id, domain))

MarkAlertRead ==
    \E user_id \in Users, alert_id \in IsoAlertIds :
        IsoWrite("mark_alert_read", user_id, alert_id,
                 mark_alert_read(ssl_checks, monitors, alerts, user_id, alert_id))

ResolveAlert ==
    \E user_id \in Users, alert_id \in IsoAlertIds :
        IsoWrite("mark_alert_resolved", user_id, alert_id,
                 mark_alert_resolved(ssl_checks, monitors, alerts, user_id, alert_id, now))

DeleteAlert ==
    \E user_id \in Users, alert_id \in IsoAlertIds :
        IsoWrite("delete_alert", user_id, alert_id,
                 delete_alert(ssl_checks, monitors, alerts, user_id, alert_id))

NextIso ==
    \/ GetHistory \/ GetStats \/ GetDomains \/ GetMonitors \/ GetAlerts
    \/ DeleteDomain \/ CreateOrUpdateMonitor \/ UpdateMonitor \/ DeleteMonitor
    \/ MarkAlertRead \/ ResolveAlert \/ DeleteAlert

SpecIso == InitIso /\ [][NextIso]_vars

\* the rows of a table that belong to a user, in the order of the table
RowsOfUser(tbl, user_id) == SelectSeq(tbl, LAMBDA r : r.user_id = user_id)

\* C24: in every step, made by the authenticated user u, the rows answered
\* are rows of u, the statistics count the checks of u only, the checks,
\* monitors and alerts of every other user stay as they were, and a request
\* on the alert id of another user is answered 404 and changes no alert.
C24_PerUserIsolation ==
    [][LET u == call'.user_id IN
       /\ \A i \in 1..Len(call'.rows) : call'.rows[i].user_id = u
       /\ call'.op = "get_stats" =>
             /\ call'.stats.total_checks =
                   Cardinality({i \in 1..Len(ssl_checks) : ssl_checks[i].user_id = u})
             /\ call'.stats.unique_domains =
                   Cardinality({d \in IsoDomains :
                       \E i \in 1..Len(ssl_checks) :
                           ssl_checks[i].user_id = u /\ ssl_checks[i].domain = d})
       /\ \A v \in Users \ {u} :
             /\ RowsOfUser(ssl_checks', v) = RowsOfUser(ssl_checks, v)
             /\ RowsOfUser(monitors', v) = RowsOfUser(monitors, v)
             /\ RowsOfUser(alerts', v) = RowsOfUser(alerts, v)
       /\ (/\ call'.op \in {"mark_alert_read", "mark_alert_resolved", "delete_alert"}
           /\ \E i \in 1..Len(alerts) :
                 alerts[i].id = call'.alert_id /\ alerts[i].user_id # u)
             => call'.status = 404 /\ alerts' = alerts
      ]_vars

\* the first user, who has deleted the domain both users check, asked to
\* resolve the alert of the second user and got 404; the rows of the second
\* user are all there
C24_Witness ==
    /\ call.op = "mark_alert_resolved"
    /\ call.user_id = 1
    /\ call.alert_id = 2
    /\ call.status = 404
    /\ RowsOfUser(ssl_checks, 1) = << >>
    /\ Len(RowsOfUser(ssl_checks, 2)) = 2
    /\ \E i \in 1..Len(alerts) : alerts[i].id = 2 /\ ~ alerts[i].is_resolved

(***************************************************************************)
(* The middleware stack of src/ssl-monitor/api/main.py: CORSMiddleware,    *)
(* added last, runs first; then TrailingSlashMiddleware; then the routes   *)
(* with their authentication.  A path is the sequence of its characters,   *)
(* "/" or a letter.                                                        *)
(***************************************************************************)
MaxPathLen == 4

PathChars == {"/", "a"}

\* the paths of requests: they begin with "/"
RequestPaths ==
    {p \in UNION {[1..n -> PathChars] : n \in 1..MaxPathLen} : p[1] = "/"}

HttpMethods == {"GET", "POST", "PATCH", "DELETE", "OPTIONS"}

RECURSIVE RStripSlash(_)
\* url_path.rstrip("/")
RStripSlash(path) ==
    IF path # << >> /\ path[Len(path)] = "/"
    THEN RStripSlash(SubSeq(path, 1, Len(path) - 1))
    ELSE path

\* a request: preflight says it has the Origin and
\* Access-Control-Request-Method headers, token that it has a valid bearer
\* token
HttpRequest(method, path, query, preflight, token) ==
    [method |-> method, path |-> path, query |-> query, preflight |-> preflight,
     token |-> token]

HttpResponse(status, by, location_path, location_query) ==
    [status |-> status, by |-> by, location_path |-> location_path,
     location_query |-> location_query]

\* the routes: authentication decides
Routes(request) ==
    HttpResponse(IF request.token THEN 200 ELSE 401, "routes", << >>, "")

\* a mutant of TrailingSlashMiddleware.dispatch: one slash is removed
DispatchRemovingOneSlash(request) ==
    IF request.path # <<"/">> /\ request.path[Len(request.path)] = "/"
    THEN HttpResponse(307, "TrailingSlashMiddleware",
                      SubSeq(request.path, 1, Len(request.path) - 1), request.query)
    ELSE Routes(request)

\* TrailingSlashMiddleware.dispatch(request, call_next)
dispatch(request) ==
    IF request.path # <<"/">> /\ request.path[Len(request.path)] = "/"
    THEN HttpResponse(307, "TrailingSlashMiddleware", RStripSlash(request.path),
                      request.query)
    ELSE Routes(request)

\* CORSMiddleware answers a preflight request itself and hands every other
\* request on
Application(request) ==
    IF request.method = "OPTIONS" /\ request.preflight
    THEN HttpResponse(200, "CORSMiddleware", << >>, "")
    ELSE dispatch(request)

\* the request, its answer, and how many redirects led to the request
HttpCall(request, response, answered, hops) ==
    [op |-> "request", request |-> request, response |-> response,
     answered |-> answered, hops |-> hops]

InitHttp ==
    /\ now = 0
    /\ alerts = << >>
    /\ ssl_checks = << >>
    /\ monitors = << >>
    /\ alert_configs = << >>
    /\ posts = << >>
    /\ ret = Ret("init", 0, "", << >>, << >>, << >>)
    /\ \E method \in HttpMethods, path \in RequestPaths, query \in {"", "limit=5"},
          preflight \in BOOLEAN, token \in BOOLEAN :
          call = HttpCall(HttpRequest(method, path, query, preflight, token),
                          HttpResponse(0, "", << >>, ""), FALSE, 0)
    /\ WebhookIdle
    /\ ExpiryIdle
    /\ RaceIdle

\* the application answers the request
Answer ==
    /\ ~ call.answered
    /\ call' = [call EXCEPT !.response = Application(call.request), !.answered = TRUE]
    /\ UNCHANGED << now, alerts, ssl_checks, monitors, alert_configs, posts, ret, ex >>
    /\ UNCHANGED webhookVars
    /\ UNCHANGED raceVars

\* the client follows a redirect: same method and headers, the URL of the
\* Location header; an empty path is sent as "/"
FollowRedirect ==
    /\ call.answered
    /\ call.response.status = 307
    /\ call' = HttpCall([call.request EXCEPT
                            !.path = IF call.response.location_path = << >> THEN <<"/">>
                                     ELSE call.response.location_path,
                            !.query = call.response.location_query],
                        HttpResponse(0, "", << >>, ""), FALSE, call.hops + 1)
    /\ UNCHANGED << now, alerts, ssl_checks, monitors, alert_configs, posts, ret, ex >>
    /\ UNCHANGED webhookVars
    /\ UNCHANGED raceVars

NextHttp == Answer \/ FollowRedirect

SpecHttp == InitHttp /\ [][NextHttp]_vars

\* the path of the request is not "/" and ends with "/"
TrailingSlash == call.request.path # <<"/">> /\ call.request.path[Len(call.request.path)] = "/"

\* the answer is the redirect of the middleware: 307 to the URL of the
\* request without the slashes at its end, the query kept
RedirectedWithoutSlash ==
    /\ call.response.status = 307
    /\ call.response.by = "TrailingSlashMiddleware"
    /\ \E n \in 1..Len(call.request.path) :
          /\ call.response.location_path = SubSeq(call.request.path, 1, Len(call.request.path) - n)
          /\ \A i \in (Len(call.request.path) - n + 1)..Len(call.request.path) :
                call.request.path[i] = "/"
    /\ (call.response.location_path = << >>
          \/ call.response.location_path[Len(call.response.location_path)] # "/")
    /\ call.response.location_query = call.request.query

\* C25 as stated: every request with a trailing slash, whatever its method
\* and whether authenticated or not, is answered by the redirect; a request
\* without one is not redirected; no request that follows a redirect is
\* redirected again.
C25_TrailingSlashRedirected ==
    call.answered =>
        /\ TrailingSlash => RedirectedWithoutSlash
        /\ ~ TrailingSlash => call.response.status # 307
        /\ call.hops > 0 => call.response.status # 307

\* C25 amended: every request with a trailing slash that is not a CORS
\* preflight is answered by the redirect, whatever its method and whether
\* authenticated or not; a preflight is answered by CORSMiddleware without a
\* redirect; a request without a trailing slash is not redirected; no
\* request that follows a redirect is redirected again.
C25_TrailingSlashRedirectedButPreflight ==
    call.answered =>
        /\ (TrailingSlash /\ ~ (call.request.method = "OPTIONS" /\ call.request.preflight))
              => RedirectedWithoutSlash
        /\ (call.request.method = "OPTIONS" /\ call.request.preflight)
              => call.response.by = "CORSMiddleware" /\ call.response.status # 307
        /\ ~ TrailingSlash => call.response.status # 307
        /\ call.hops > 0 => call.response.status # 307

\* a DELETE without a token on a path with two slashes at its end was
\* redirected, and the request that followed was answered by the routes
C25_Witness ==
    /\ call.answered
    /\ call.hops = 1
    /\ call.request.method = "DELETE"
    /\ ~ call.request.token
    /\ call.request.path = <<"/", "a">>
    /\ call.response.by = "routes"

(***************************************************************************)
(* The toggles of the expiry thresholds (checked under SpecExpiry).        *)
(***************************************************************************)
\* the three thresholds in the order in which they are tested
ExpiryThresholds(cfg) ==
    << [days |-> 1, toggle |-> cfg.alert_1_day, severity |-> "critical"],
       [days |-> 7, toggle |-> cfg.alert_7_days, severity |-> "high"],
       [days |-> 30, toggle |-> cfg.alert_30_days, severity |-> "medium"] >>

\* the thresholds that match the day count d and whose toggle is on
EnabledMatches(d, cfg) ==
    {i \in 1..3 : d <= ExpiryThresholds(cfg)[i].days /\ ExpiryThresholds(cfg)[i].toggle}

\* C26: a threshold whose toggle is off never determines the result: for a
\* day count d >= 0 the result is that of the first of the thresholds 1 day,
\* 7 days, 30 days that matches d and has its toggle on, no alert when there
\* is none; with the three toggles off no expiring_soon alert is returned for
\* any d.
C26_TogglesGateThresholds ==
    ( /\ ex.done
      /\ DayCountOf(ex.data, now) # << >> )
    => LET d == DayCountOf(ex.data, now)[1]
           m == EnabledMatches(d, ex.cfg) IN
       /\ (d >= 0 /\ m = {}) => ~ ex.out.some
       /\ (d >= 0 /\ m # {}) =>
             /\ ex.out.some
             /\ ex.out.alert_type = "expiring_soon"
             /\ ex.out.severity = ExpiryThresholds(ex.cfg)[SetMin(m)].severity
             /\ ex.out.days_remaining = d
       /\ (ex.out.some /\ ex.out.alert_type = "expiring_soon") =>
             \E i \in 1..3 : /\ ExpiryThresholds(ex.cfg)[i].toggle
                             /\ ExpiryThresholds(ex.cfg)[i].severity = ex.out.severity
       /\ (~ ex.cfg.alert_1_day /\ ~ ex.cfg.alert_7_days /\ ~ ex.cfg.alert_30_days) =>
             ~ (ex.out.some /\ ex.out.alert_type = "expiring_soon")

\* the rule has run on a certificate that expires today with the 1-day
\* toggle off and the 7-day toggle on, and reported severity high
C26_Witness ==
    /\ ex.done
    /\ ex.data.ssl # << >>
    /\ ex.data.ssl[1].daysUntilExpiration = <<0>>
    /\ ~ ex.cfg.alert_1_day
    /\ ex.cfg.alert_7_days
    /\ ex.out.some
    /\ ex.out.alert_type = "expiring_soon"
    /\ ex.out.severity = "high"

(***************************************************************************)
(* The ssl_error rule on the results of the checker: check_single_target   *)
(* answers, and process_ssl_check_alerts hands the dictionary under 'data' *)
(* to check_ssl_errors.                                                    *)
(***************************************************************************)
\* dict.get(key, default)
DictGet(dict, key, default) == IF key \in DOMAIN dict THEN dict[key] ELSE default

\* what check_ssl_errors reads of the dictionary: ssl_data.get('sslStatus')
\* and ssl_data.get('alerts', [])
SslDataOfCheck(data) ==
    [sslStatus |-> IF "sslStatus" \in DOMAIN data THEN <<data.sslStatus>> ELSE << >>,
     alerts |-> DictGet(data, "alerts", << >>)]

\* the world of a check of example.com with the given probe outcomes
MessageWorld(verified, unverified) ==
    TargetWorld([raises |-> "", answers |-> <<"93.184.216.34">>],
                Raised("gaierror", "Name or service not known"),
                verified, unverified, <<"nginx">>, << >>, << >>,
                GeoAnswer("data", "United States"))

MessageCall(world, alert_config, result, out, stage) ==
    [op |-> "check_ssl_errors of check_single_target", world |-> world,
     alert_config |-> alert_config, result |-> result, out |-> out, stage |-> stage]

InitMessage ==
    /\ now = 0
    /\ alerts = << >>
    /\ ssl_checks = << >>
    /\ monitors = << >>
    /\ alert_configs = << >>
    /\ posts = << >>
    /\ ret = Ret("init", 0, "", << >>, << >>, << >>)
    /\ \E verified \in VerifiedConnections, unverified \in UnverifiedConnections,
          aerr \in BOOLEAN :
          call = MessageCall(MessageWorld(verified, unverified),
                             AlertConfig(TRUE, TRUE, TRUE, TRUE, aerr, TRUE, TRUE, NoUrl),
                             TargetResult("", "", << >>, << >>), NoFinding, "request")
    /\ WebhookIdle
    /\ ExpiryIdle
    /\ RaceIdle

\* the checker answers GET /api/check?domain=example.com
CheckerAnswers ==
    /\ call.stage = "request"
    /\ call' = [call EXCEPT
                  !.result = check_single_target("example.com", "", DEFAULT_SSL_PORT,
                                                 call.world, ProbeNow),
                  !.stage = "checked"]
    /\ UNCHANGED << now, alerts, ssl_checks, monitors, alert_configs, posts, ret, ex >>
    /\ UNCHANGED webhookVars
    /\ UNCHANGED raceVars

\* process_ssl_check_alerts: ssl_data = ssl_check_data.get('data', {}), then
\* check_ssl_errors(ssl_data, alert_config)
CheckSslErrorsOfCheck ==
    /\ call.stage = "checked"
    /\ call.result.data # << >>
    /\ call' = [call EXCEPT
                  !.out = check_ssl_errors(SslDataOfCheck(call.result.data[1]),
                                           call.alert_config),
                  !.stage = "evaluated"]
    /\ UNCHANGED << now, alerts, ssl_checks, monitors, alert_configs, posts, ret, ex >>
    /\ UNCHANGED webhookVars
    /\ UNCHANGED raceVars

NextMessage == CheckerAnswers \/ CheckSslErrorsOfCheck

SpecMessage == InitMessage /\ [][NextMessage]_vars

\* the alert strings the checker put in the certificate's alert list
AlertStringsOfCheck == call.result.data[1].ssl.alerts

\* C27: when the ssl_error rule fires on a result of the checker, the message
\* holds the first two alert strings of that result, all of them when there
\* are fewer, and none beyond the second.
C27_MessageHoldsAlertStrings ==
    (call.stage = "evaluated" /\ call.out.some) =>
        /\ call.out.alert_type = "ssl_error"
        /\ call.out.message.args =
              SubSeq(AlertStringsOfCheck, 1, Min(2, Len(AlertStringsOfCheck)))

(***************************************************************************)
(* The unverified retry (checked under SpecProbe).                         *)
(***************************************************************************)
\* the verified probe failed certificate validation and the connection made
\* without verification was established and closed
RetrySucceeded ==
    /\ call.verified.raises = "CertificateError"
    /\ call.unverified.raises = ""
    /\ ~ call.unverified.close_raises

ValidationAlerts == {ALERT_CN_MISMATCH, ALERT_CERT_EXPIRED, ALERT_CERT_INVALID}

\* C28: when the verified probe fails certificate validation and the
\* unverified retry succeeds, the returned certificate info carries the
\* fields of the installed certificate, and its alert list is exactly the one
\* validation-failure alert, with no threshold alert merged into it.
C28_RetryGivesFieldsAndOneAlert ==
    (call.done /\ RetrySucceeded) =>
        /\ ~ ScalarFieldsNull(call.result.cert_info)
        /\ call.result.cert_info.notAfter # << >>
        /\ Len(call.result.cert_info.alerts) = 1
        /\ call.result.cert_info.alerts[1] \in ValidationAlerts

(***************************************************************************)
(* The classification of failed probes (checked under SpecProbe).          *)
(***************************************************************************)
\* the verified probe failed: the connection, the parser or close() raised
ProbeFailed ==
    \/ call.verified.raises # ""
    \/ call.verified.cert.notAfter = << >>
    \/ call.verified.close_raises

\* C29: every failed probe gets exactly one error type: CN_MISMATCH,
\* CERT_EXPIRED or CERTIFICATE_INVALID for a certificate-validation failure,
\* SSL_ERROR for a handshake or protocol failure, UNKNOWN_ERROR for any other
\* failure; sslStatus is success exactly when the error type is null; every
\* error result carries at least one alert and one recommendation.
C29_FailedProbeClassified ==
    call.done =>
        /\ call.result.ssl_status \in {STATUS_SUCCESS, STATUS_ERROR}
        /\ (call.result.ssl_status = STATUS_SUCCESS) <=> (call.result.ssl_error_type = << >>)
        /\ (call.result.ssl_status = STATUS_ERROR) <=> ProbeFailed
        /\ ProbeFailed =>
              /\ Len(call.result.ssl_error_type) = 1
              /\ call.verified.raises = "CertificateError" =>
                    call.result.ssl_error_type[1] \in
                        {ERROR_CN_MISMATCH, ERROR_CERT_EXPIRED, ERROR_CERT_INVALID}
              /\ call.verified.raises = "SSLError" =>
                    call.result.ssl_error_type[1] = ERROR_SSL_ERROR
              /\ call.verified.raises \notin {"CertificateError", "SSLError"} =>
                    call.result.ssl_error_type[1] = ERROR_UNKNOWN
              /\ Len(call.result.cert_info.alerts) >= 1
              /\ Len(call.result.recommendations) >= 1

\* a probe whose handshake failed was classified SSL_ERROR
C29_Witness ==
    /\ call.done
    /\ call.verified.raises = "SSLError"
    /\ call.result.ssl_status = STATUS_ERROR
    /\ call.result.ssl_error_type = <<ERROR_SSL_ERROR>>
    /\ call.result.cert_info.alerts = <<ALERT_SSL_HANDSHAKE_FAILED>>
    /\ call.result.recommendations = <<REC_CHECK_SSL_CONFIG>>

(***************************************************************************)
(* evaluate_cipher_strength of src/ssl-checker/cert_utils.py.  A cipher    *)
(* name is the sequence of its characters.                                 *)
(***************************************************************************)
MaxCipherParts == 3

LowerCase == <<"a", "b", "c", "d", "e", "f", "g", "h", "i", "j", "k", "l", "m", "n", "o", "p", "q", "r", "s", "t", "u", "v", "w", "x", "y", "z">>

UpperCase == <<"A", "B", "C", "D", "E", "F", "G", "H", "I", "J", "K", "L", "M", "N", "O", "P", "Q", "R", "S", "T", "U", "V", "W", "X", "Y", "Z">>

\* str.upper() of one character
UpperChar(c) ==
    IF \E i \in 1..Len(LowerCase) : LowerCase[i] = c
    THEN UpperCase[CHOOSE i \in 1..Len(LowerCase) : LowerCase[i] = c]
    ELSE c

\* cipher.upper()
Upper(text) == [i \in 1..Len(text) |-> UpperChar(text[i])]

\* weak in cipher_upper
Contains(text, part) ==
    \E i \in 1..(Len(text) - Len(part) + 1) : SubSeq(text, i, i + Len(part) - 1) = part

WEAK_CIPHER_COMPONENTS ==
    <<<<"R", "C", "4">>,
      <<"D", "E", "S">>,
      <<"3", "D", "E", "S">>,
      <<"M", "D", "5">>,
      <<"S", "H", "A", "1">>,
      <<"N", "U", "L", "L">>>>

\* a mutant of evaluate_cipher_strength: the name is compared as it is written
EvaluateCipherStrengthCaseSensitive(cipher) ==
    IF cipher = << >> \/ cipher[1] = << >> THEN "unknown"
    ELSE IF \E k \in 1..Len(WEAK_CIPHER_COMPONENTS) :
               Contains(cipher[1], WEAK_CIPHER_COMPONENTS[k])
         THEN "weak"
         ELSE "strong"

\* evaluate_cipher_strength(cipher): cipher is << >> for None and <<name>>
\* otherwise
evaluate_cipher_strength(cipher) ==
    IF cipher = << >> \/ cipher[1] = << >> THEN "unknown"          \* not cipher
    ELSE LET cipher_upper == Upper(cipher[1]) IN
         IF \E k \in 1..Len(WEAK_CIPHER_COMPONENTS) :
               Contains(cipher_upper, WEAK_CIPHER_COMPONENTS[k])
         THEN "weak"
         ELSE "strong"

\* the pieces cipher names are put together from
CipherParts ==
    {<<"R", "C", "4">>,
     <<"r", "c", "4">>,
     <<"D", "E", "S">>,
     <<"d", "e", "s">>,
     <<"3">>,
     <<"M", "D", "5">>,
     <<"M", "d", "5">>,
     <<"S", "H", "A">>,
     <<"1">>,
     <<"N", "U", "L", "L">>,
     <<"n", "u", "l", "l">>,
     <<"A", "E", "S">>,
     <<"-">>}

RECURSIVE Concat(_)
Concat(parts) == IF parts = << >> THEN << >> ELSE Head(parts) \o Concat(Tail(parts))

\* None, the empty name, and the names of up to MaxCipherParts pieces
CipherNames ==
    {<< >>} \cup
    {<<Concat(parts)>> : parts \in UNION {[1..n -> CipherParts] : n \in 0..MaxCipherParts}}

CipherCall(cipher, result, done) ==
    [op |-> "evaluate_cipher_strength", cipher |-> cipher, result |-> result,
     done |-> done]

InitCipher ==
    /\ now = 0
    /\ alerts = << >>
    /\ ssl_checks = << >>
    /\ monitors = << >>
    /\ alert_configs = << >>
    /\ posts = << >>
    /\ ret = Ret("init", 0, "", << >>, << >>, << >>)
    /\ \E cipher \in CipherNames : call = CipherCall(cipher, "", FALSE)
    /\ WebhookIdle
    /\ ExpiryIdle
    /\ RaceIdle

EvaluateCipherStrength ==
    /\ ~ call.done
    /\ call' = [call EXCEPT !.result = evaluate_cipher_strength(call.cipher),
                            !.done = TRUE]
    /\ UNCHANGED << now, alerts, ssl_checks, monitors, alert_configs, posts, ret, ex >>
    /\ UNCHANGED webhookVars
    /\ UNCHANGED raceVars

NextCipher == EvaluateCipherStrength

SpecCipher == InitCipher /\ [][NextCipher]_vars

\* the two characters are the same letter, in whatever case
SameLetter(a, b) ==
    \/ a = b
    \/ \E i \in 1..Len(LowerCase) : {a, b} = {LowerCase[i], UpperCase[i]}

\* text holds part as a substring in any letter case
ContainsInAnyCase(text, part) ==
    \E i \in 1..(Len(text) - Len(part) + 1) :
        \A j \in 1..Len(part) : SameLetter(text[i + j - 1], part[j])

\* the cipher of the call holds one of the given substrings in any letter case
CipherHoldsOneOf(parts) ==
    /\ call.cipher # << >>
    /\ \E part \in parts : ContainsInAnyCase(call.cipher[1], part)

\* the substrings the claim names
ClaimedWeakParts ==
    {<<"R", "C", "4">>, <<"3", "D", "E", "S">>, <<"M", "D", "5">>, <<"N", "U", "L", "L">>, <<"S", "H", "A", "1">>}

\* C30 as stated: "weak" for every cipher name that holds RC4, 3DES, MD5,
\* NULL or SHA1 in any letter case, "strong" for every non-empty name that
\* holds none of them, "unknown" for an empty or absent cipher.
C30_WeakIffOneOfFive ==
    call.done =>
        /\ (call.cipher = << >> \/ call.cipher = << << >> >>) => call.result = "unknown"
        /\ CipherHoldsOneOf(ClaimedWeakParts) => call.result = "weak"
        /\ ( /\ call.cipher # << >>
             /\ call.cipher # << << >> >>
             /\ ~ CipherHoldsOneOf(ClaimedWeakParts) ) => call.result = "strong"

\* C30 amended: "weak" for every cipher name that holds RC4, DES, 3DES, MD5,
\* NULL or SHA1 in any letter case, "strong" for every non-empty name that
\* holds none of them, "unknown" for an empty or absent cipher.
C30_WeakIffOneOfSix ==
    call.done =>
        /\ (call.cipher = << >> \/ call.cipher = << << >> >>) => call.result = "unknown"
        /\ CipherHoldsOneOf(ClaimedWeakParts \cup {<<"D", "E", "S">>}) => call.result = "weak"
        /\ ( /\ call.cipher # << >>
             /\ call.cipher # << << >> >>
             /\ ~ CipherHoldsOneOf(ClaimedWeakParts \cup {<<"D", "E", "S">>}) ) => call.result = "strong"

\* the cipher des-AES, which holds DES in lower case and none of the other
\* substrings, was found weak
C30_Witness ==
    /\ call.done
    /\ call.cipher = <<<<"d", "e", "s", "-", "A", "E", "S">>>>
    /\ call.result = "weak"

(***************************************************************************)
(* get_server_header of src/ssl-monitor/api/network_utils.py: the          *)
(* fingerprinter with its validation of domain and address.  Domain and    *)
(* address are sequences of characters; a banner is a sequence of pieces.  *)
(***************************************************************************)
DEFAULT_HTTP_PORT == 80

Digits == <<"0", "1", "2", "3", "4", "5", "6", "7", "8", "9">>

IsDigit(c) == \E i \in 1..Len(Digits) : Digits[i] = c

IsLetter(c) == \E i \in 1..Len(LowerCase) : c \in {LowerCase[i], UpperCase[i]}

IsAlnum(c) == IsDigit(c) \/ IsLetter(c)

RECURSIVE SplitOn(_, _)
\* text.split(sep) for a separator of one character
SplitOn(text, sep) ==
    IF \A i \in 1..Len(text) : text[i] # sep THEN <<text>>
    ELSE LET k == CHOOSE i \in 1..Len(text) :
                     text[i] = sep /\ \A j \in 1..(i - 1) : text[j] # sep
         IN <<SubSeq(text, 1, k - 1)>> \o SplitOn(SubSeq(text, k + 1, Len(text)), sep)

\* [a-zA-Z0-9]([a-zA-Z0-9\-]{0,61}[a-zA-Z0-9])?
ValidLabel(label) ==
    /\ Len(label) \in 1..63
    /\ IsAlnum(label[1])
    /\ IsAlnum(label[Len(label)])
    /\ \A i \in 1..Len(label) : IsAlnum(label[i]) \/ label[i] = "-"

\* is_valid_domain(domain): labels and a top-level domain of two or more
\* letters, or one label
is_valid_domain(domain) ==
    LET labels == SplitOn(domain, ".")
        tld == labels[Len(labels)]
    IN \/ /\ Len(labels) >= 2
          /\ \A i \in 1..(Len(labels) - 1) : ValidLabel(labels[i])
          /\ Len(tld) >= 2
          /\ \A i \in 1..Len(tld) : IsLetter(tld[i])
       \/ /\ Len(labels) = 1
          /\ ValidLabel(labels[1])

RECURSIVE DecimalValue(_)
\* the number a string of up to 3 decimal digits writes
DecimalValue(digits) ==
    IF digits = << >> THEN 0
    ELSE 10 * DecimalValue(SubSeq(digits, 1, Len(digits) - 1))
         + (CHOOSE i \in 1..10 : Digits[i] = digits[Len(digits)]) - 1

\* is_valid_ip(ip): socket.inet_aton accepts one to four numbers joined by
\* dots, each but the last at most 255 (numbers here are decimal, of up to 3
\* digits, and the last of four is at most 255); "raises" when the text holds
\* a null character, for which inet_aton raises ValueError, not socket.error
is_valid_ip(ip) ==
    IF \E i \in 1..Len(ip) : ip[i] = "NUL" THEN "raises"
    ELSE LET parts == SplitOn(ip, ".") IN
         IF /\ Len(parts) \in 1..4
            /\ \A i \in 1..Len(parts) :
                  /\ Len(parts[i]) \in 1..3
                  /\ \A j \in 1..Len(parts[i]) : IsDigit(parts[i][j])
                  /\ (i < Len(parts) \/ Len(parts) = 4) => DecimalValue(parts[i]) <= 255
         THEN "valid" ELSE "invalid"

\* what a request answers: an exception, or a response with or without a
\* Server header
HeaderOutcome(kind, server) == [kind |-> kind, server |-> server]

\* what the raw socket answers: an exception, or the pieces of the banner
BannerOutcome(kind, banner) == [kind |-> kind, banner |-> banner]

RECURSIVE StripSpaces(_)
\* str.strip() of a sequence of pieces
StripSpaces(pieces) ==
    IF pieces = << >> THEN << >>
    ELSE IF Head(pieces) = " " THEN StripSpaces(Tail(pieces))
    ELSE IF pieces[Len(pieces)] = " " THEN StripSpaces(SubSeq(pieces, 1, Len(pieces) - 1))
    ELSE pieces

RECURSIVE Join(_)
\* the text of a sequence of pieces
Join(pieces) == IF pieces = << >> THEN "" ELSE Head(pieces) \o Join(Tail(pieces))

\* banner.split('Server:')[1].split('\r\n')[0].strip()
ServerOfBanner(banner) ==
    LET k == CHOOSE i \in 1..Len(banner) :
                 banner[i] = "Server:" /\ \A j \in 1..(i - 1) : banner[j] # "Server:"
        rest == SubSeq(banner, k + 1, Len(banner))
        line == SplitOn(SplitOn(rest, "Server:")[1], "\r\n")[1]
    IN Join(StripSpaces(line))

\* one attempt of a tier
Attempt(tier, host, port) == [tier |-> tier, host |-> host, port |-> port]

\* what get_server_header did: the value returned or the exception raised,
\* and the attempts made
HeaderResult(kind, server, attempts) ==
    [kind |-> kind, server |-> server, attempts |-> attempts]

\* get_server_header(domain, ip, port) of the monitor: domain is << >> for
\* None or the empty string; https, http and socket_answer are what the three
\* tiers find
network_utils_get_server_header(domain, ip, port, https, http, socket_answer) ==
    IF domain # << >> /\ ~ is_valid_domain(domain) THEN HeaderResult("returns", UNKNOWN_SERVER, << >>)
    ELSE IF is_valid_ip(ip) = "raises" THEN HeaderResult("raises", "ValueError", << >>)
    ELSE IF is_valid_ip(ip) = "invalid" THEN HeaderResult("returns", UNKNOWN_SERVER, << >>)
    ELSE
    LET a1 == IF domain # << >> THEN <<Attempt("https", domain, port)>> ELSE << >>
        a2 == Append(a1, Attempt("http", IF domain # << >> THEN domain ELSE ip, port))
        a3 == Append(a2, Attempt("socket", ip,
                                 IF port # DEFAULT_SSL_PORT THEN port ELSE DEFAULT_HTTP_PORT))
    IN IF /\ domain # << >>
          /\ https.kind = "response" /\ https.server # << >> /\ https.server[1] # ""
       THEN HeaderResult("returns", https.server[1], a1)
       ELSE IF http.kind = "response" /\ http.server # << >> /\ http.server[1] # ""
       THEN HeaderResult("returns", http.server[1], a2)
       ELSE IF socket_answer.kind = "banner" /\ Contains(socket_answer.banner, <<"Server:">>)
       THEN HeaderResult("returns", ServerOfBanner(socket_answer.banner), a3)
       ELSE HeaderResult("returns", UNKNOWN_SERVER, a3)

\* the domains of the calls: None, names that pass the validation and names
\* that do not
HeaderDomains ==
    {<< >>,
     <<"e", "x", "a", "m", "p", "l", "e", ".", "c", "o", "m">>,
     <<"l", "o", "c", "a", "l", "h", "o", "s", "t">>,
     <<"h", "t", "t", "p", ":", "/", "/", "x", ".", "i", "o">>,
     <<"-", "b", "a", "d", ".", "c", "o", "m">>,
     <<"e", "x", "a", "m", "p", "l", "e", ".", "c">>,
     <<"1", "2", "7", ".", "0", ".", "0", ".", "1">>}

\* the addresses of the calls
HeaderIps ==
    {<<"9", "3", ".", "1", "8", "4", ".", "2", "1", "6", ".", "3", "4">>,
     <<"1", "2", "7", ".", "1">>,
     <<"2", "5", "6", ".", "1", ".", "1", ".", "1">>,
     <<"e", "x", "a", "m", "p", "l", "e", ".", "c", "o", "m">>,
     <<>>,
     <<"1", ".", "2", ".", "3", ".", "4", "NUL">>}

\* the ports of the calls: the two defaults, another port, and two numbers
\* that are no port
HeaderPorts == {443, 80, 8443, 0, 70000}

HeaderOutcomes ==
    {HeaderOutcome("raises", << >>), HeaderOutcome("response", << >>),
     HeaderOutcome("response", <<"">>), HeaderOutcome("response", <<"nginx">>)}

BannerOutcomes ==
    {BannerOutcome("raises", << >>),
     BannerOutcome("banner", << >>),
     BannerOutcome("banner", <<"HTTP/1.0 200 OK", "\r\n", "Content-Length: 0", "\r\n", "\r\n">>),
     BannerOutcome("banner", <<"HTTP/1.0 200 OK", "\r\n", "Server:", " ", "Apache", "\r\n", "\r\n">>),
     BannerOutcome("banner", <<"HTTP/1.0 200 OK", "\r\n", "Server:", " ", "\r\n", "\r\n">>),
     BannerOutcome("banner", <<"HTTP/1.0 200 OK", "\r\n", "Server:">>),
     BannerOutcome("banner", <<"Server:", "gws", "\r\n", "X-", "Server:", "x", "\r\n">>)}

HeaderCall(domain, ip, port, https, http, socket_answer, result, done) ==
    [op |-> "get_server_header", domain |-> domain, ip |-> ip, port |-> port,
     https |-> https, http |-> http, socket_answer |-> socket_answer,
     result |-> result, done |-> done]

InitHeader ==
    /\ now = 0
    /\ alerts = << >>
    /\ ssl_checks = << >>
    /\ monitors = << >>
    /\ alert_configs = << >>
    /\ posts = << >>
    /\ ret = Ret("init", 0, "", << >>, << >>, << >>)
    /\ \E domain \in HeaderDomains, ip \in HeaderIps, port \in HeaderPorts,
          https \in HeaderOutcomes, http \in HeaderOutcomes,
          socket_answer \in BannerOutcomes :
          call = HeaderCall(domain, ip, port, https, http, socket_answer,
                            HeaderResult("", "", << >>), FALSE)
    /\ WebhookIdle
    /\ ExpiryIdle
    /\ RaceIdle

GetServerHeader ==
    /\ ~ call.done
    /\ call' = [call EXCEPT
                  !.result = network_utils_get_server_header(
                                 call.domain, call.ip, call.port, call.https, call.http,
                                 call.socket_answer),
                  !.done = TRUE]
    /\ UNCHANGED << now, alerts, ssl_checks, monitors, alert_configs, posts, ret, ex >>
    /\ UNCHANGED webhookVars
    /\ UNCHANGED raceVars

NextHeader == GetServerHeader

SpecHeader == InitHeader /\ [][NextHeader]_vars

(***************************************************************************)
(* Claims about the fingerprinter (checked under SpecHeader).              *)
(***************************************************************************)
\* the inputs of the call passed the validation of domain and address
HeaderInputsValid ==
    /\ call.domain # << >> => is_valid_domain(call.domain)
    /\ is_valid_ip(call.ip) = "valid"

\* the Server value a tier obtains, << >> when it raises or finds none
TierValue(tier) ==
    IF tier = "socket"
    THEN IF /\ call.socket_answer.kind = "banner"
            /\ Contains(call.socket_answer.banner, <<"Server:">>)
            /\ ServerOfBanner(call.socket_answer.banner) # ""
         THEN <<ServerOfBanner(call.socket_answer.banner)>> ELSE << >>
    ELSE LET answer == IF tier = "https" THEN call.https ELSE call.http IN
         IF answer.kind = "response" /\ answer.server # << >> /\ answer.server[1] # ""
         THEN answer.server ELSE << >>

\* the tiers in their order: HTTPS only when a domain is given
TierOrder ==
    IF call.domain # << >> THEN <<"https", "http", "socket">> ELSE <<"http", "socket">>

\* C31: the tiers are attempted in the order HTTPS (with a domain only), HTTP,
\* banner; a tier is attempted only if every earlier tier raised or found no
\* Server value; the first value found is returned and no later tier is
\* tried; "Unknown" is returned when no tier finds a value.
C31_TiersInOrder ==
    (call.done /\ HeaderInputsValid) =>
        LET attempts == call.result.attempts
            n == Len(attempts) IN
        /\ call.result.kind = "returns"
        /\ n \in 1..Len(TierOrder)
        /\ \A i \in 1..n : attempts[i].tier = TierOrder[i]
        /\ \A i \in 1..(n - 1) : TierValue(TierOrder[i]) = << >>
        /\ (TierValue(TierOrder[n]) = << >>) => n = Len(TierOrder)
        /\ (TierValue(TierOrder[n]) # << >>) => call.result.server = TierValue(TierOrder[n])[1]
        /\ (TierValue(TierOrder[n]) = << >>) => call.result.server = UNKNOWN_SERVER

\* a number that is a port, as the schemas of the monitor define it (ge=1,
\* le=65535)
ValidPort(port) == port \in 1..65535

\* C32: no tier is attempted unless the domain (when given), the address and
\* the port have passed their validation; on a validation failure "Unknown"
\* is returned at once.
C32_NoTierWithoutValidation ==
    (call.done /\ ~ (HeaderInputsValid /\ ValidPort(call.port))) =>
        /\ call.result.attempts = << >>
        /\ call.result.kind = "returns"
        /\ call.result.server = UNKNOWN_SERVER

\* C38: the value get_server_header returns is a non-empty Server value that
\* one of the tiers obtained or "Unknown", never the empty string, also when
\* the banner holds "Server:" with nothing after it; so a value other than
\* "Unknown", for which check_single_target reports serverStatus success, is
\* a real server value.
C38_ServerNeverEmpty ==
    (call.done /\ call.result.kind = "returns") =>
        /\ call.result.server # ""
        /\ call.result.server # UNKNOWN_SERVER =>
              \E tier \in {"https", "http", "socket"} :
                  TierValue(tier) = <<call.result.server>>

(***************************************************************************)
(* get_ip_geolocation of src/ssl-monitor/api/network_utils.py.  A JSON     *)
(* object is a function of the keys it holds.                              *)
(***************************************************************************)
\* _normalize_ip_api_com_response(data)
_normalize_ip_api_com_response(data) ==
    [query |-> DictGet(data, "query", ""),
     status |-> DictGet(data, "status", ""),
     continent |-> DictGet(data, "continent", ""),
     continentCode |-> DictGet(data, "continentCode", ""),
     country |-> DictGet(data, "country", ""),
     countryCode |-> DictGet(data, "countryCode", ""),
     region |-> DictGet(data, "region", ""),
     regionName |-> DictGet(data, "regionName", ""),
     city |-> DictGet(data, "city", ""),
     district |-> DictGet(data, "district", ""),
     zip |-> DictGet(data, "zip", ""),
     lat |-> DictGet(data, "lat", << >>),
     lon |-> DictGet(data, "lon", << >>),
     isp |-> DictGet(data, "isp", ""),
     org |-> DictGet(data, "org", ""),
     as |-> DictGet(data, "as", ""),
     asname |-> DictGet(data, "asname", ""),
     reverse |-> DictGet(data, "reverse", ""),
     mobile |-> DictGet(data, "mobile", FALSE),
     proxy |-> DictGet(data, "proxy", FALSE),
     hosting |-> DictGet(data, "hosting", FALSE)]

\* the coordinates of data["loc"]: loc is the sequence of the parts between
\* commas, each << >> when float() raises ValueError for it and <<x>> when it
\* gives x; the assignment to lat stands when float() of the second part
\* raises
LatLon(data) ==
    IF "loc" \notin DOMAIN data \/ data.loc = << >> THEN [lat |-> << >>, lon |-> << >>]
    ELSE IF Len(data.loc) # 2 THEN [lat |-> << >>, lon |-> << >>]
    ELSE IF data.loc[1] = << >> THEN [lat |-> << >>, lon |-> << >>]
    ELSE [lat |-> data.loc[1], lon |-> data.loc[2]]

\* _normalize_ipinfo_response(data)
_normalize_ipinfo_response(data) ==
    [query |-> DictGet(data, "ip", ""),
     status |-> "success",
     continent |-> "",
     continentCode |-> "",
     country |-> DictGet(data, "country", ""),
     countryCode |-> DictGet(data, "country", ""),
     region |-> DictGet(data, "region", ""),
     regionName |-> DictGet(data, "region", ""),
     city |-> DictGet(data, "city", ""),
     district |-> "",
     zip |-> DictGet(data, "postal", ""),
     lat |-> LatLon(data).lat,
     lon |-> LatLon(data).lon,
     isp |-> "",
     org |-> DictGet(data, "org", ""),
     as |-> DictGet(data, "org", ""),
     asname |-> "",
     reverse |-> DictGet(data, "hostname", ""),
     mobile |-> FALSE,
     proxy |-> FALSE,
     hosting |-> FALSE]

\* what a provider answers: an exception of requests.get, raise_for_status
\* or response.json, or the JSON object
ProviderAnswer(kind, data) == [kind |-> kind, data |-> data]

\* what get_ip_geolocation did: the value returned (<< >> for None) or the
\* exception raised, and the providers it queried
GeoResult(kind, value, queries) == [kind |-> kind, value |-> value, queries |-> queries]

\* a mutant of get_ip_geolocation: the answer of ip-api.com is taken whatever
\* its status
GetIpGeolocationAnyStatus(ip, primary, secondary) ==
    IF is_valid_ip(ip) = "raises" THEN GeoResult("raises", << >>, << >>)
    ELSE IF is_valid_ip(ip) = "invalid" THEN GeoResult("returns", << >>, << >>)
    ELSE IF primary.kind = "json"
    THEN GeoResult("returns", <<_normalize_ip_api_com_response(primary.data)>>,
                   <<"ip-api.com">>)
    ELSE IF secondary.kind = "json" /\ "error" \notin DOMAIN secondary.data
    THEN GeoResult("returns", <<_normalize_ipinfo_response(secondary.data)>>,
                   <<"ip-api.com", "ipinfo.io">>)
    ELSE GeoResult("returns", << >>, <<"ip-api.com", "ipinfo.io">>)

\* get_ip_geolocation(ip) of the monitor
network_utils_get_ip_geolocation(ip, primary, secondary) ==
    IF is_valid_ip(ip) = "raises" THEN GeoResult("raises", << >>, << >>)
    ELSE IF is_valid_ip(ip) = "invalid" THEN GeoResult("returns", << >>, << >>)
    ELSE IF primary.kind = "json" /\ DictGet(primary.data, "status", "") = "success"
    THEN GeoResult("returns", <<_normalize_ip_api_com_response(primary.data)>>,
                   <<"ip-api.com">>)
    ELSE IF secondary.kind = "json" /\ "error" \notin DOMAIN secondary.data
    THEN GeoResult("returns", <<_normalize_ipinfo_response(secondary.data)>>,
                   <<"ip-api.com", "ipinfo.io">>)
    ELSE GeoResult("returns", << >>, <<"ip-api.com", "ipinfo.io">>)

\* the addresses of the lookups: addresses, and texts that are none
GeoIps ==
    {<<"9", "3", ".", "1", "8", "4", ".", "2", "1", "6", ".", "3", "4">>,
     <<"1", "2", "7", ".", "1">>,
     <<"2", "5", "6", ".", "1", ".", "1", ".", "1">>,
     <<"e", "x", "a", "m", "p", "l", "e", ".", "c", "o", "m">>}

\* answers of ip-api.com: an exception, a full and a short success, a
\* failure, an object without status
PrimaryAnswers ==
    {ProviderAnswer("raises", << >>),
     ProviderAnswer("json", [status |-> "success", query |-> "93.184.216.34",
                             country |-> "United States", countryCode |-> "US",
                             city |-> "Norwell", lat |-> <<42>>, lon |-> <<-70>>,
                             isp |-> "Edgecast", hosting |-> TRUE]),
     ProviderAnswer("json", [status |-> "success"]),
     ProviderAnswer("json", [status |-> "fail", message |-> "reserved range"]),
     ProviderAnswer("json", [message |-> "rate limited"])}

\* answers of ipinfo.io: an exception, an error object, objects with good,
\* missing, short and unreadable coordinates, the empty object
SecondaryAnswers ==
    {ProviderAnswer("raises", << >>),
     ProviderAnswer("json", [error |-> "rate limit exceeded"]),
     ProviderAnswer("json", [ip |-> "93.184.216.34", country |-> "US", city |-> "Norwell",
                             loc |-> << <<42>>, <<-70>> >>, org |-> "AS15133 Edgecast"]),
     ProviderAnswer("json", [ip |-> "93.184.216.34", country |-> "US"]),
     ProviderAnswer("json", [ip |-> "93.184.216.34", loc |-> << <<42>> >>]),
     ProviderAnswer("json", [ip |-> "93.184.216.34", loc |-> << <<42>>, << >> >>]),
     ProviderAnswer("json", [ip |-> "93.184.216.34", loc |-> << << >>, <<-70>> >>]),
     ProviderAnswer("json", [bogon |-> TRUE])}

LookupCall(ip, primary, secondary, result, done) ==
    [op |-> "get_ip_geolocation", ip |-> ip, primary |-> primary,
     secondary |-> secondary, result |-> result, done |-> done]

InitLookup ==
    /\ now = 0
    /\ alerts = << >>
    /\ ssl_checks = << >>
    /\ monitors = << >>
    /\ alert_configs = << >>
    /\ posts = << >>
    /\ ret = Ret("init", 0, "", << >>, << >>, << >>)
    /\ \E ip \in GeoIps, primary \in PrimaryAnswers, secondary \in SecondaryAnswers :
          call = LookupCall(ip, primary, secondary, GeoResult("", << >>, << >>), FALSE)
    /\ WebhookIdle
    /\ ExpiryIdle
    /\ RaceIdle

GetIpGeolocation ==
    /\ ~ call.done
    /\ call' = [call EXCEPT
                  !.result = network_utils_get_ip_geolocation(call.ip, call.primary,
                                                              call.secondary),
                  !.done = TRUE]
    /\ UNCHANGED << now, alerts, ssl_checks, monitors, alert_configs, posts, ret, ex >>
    /\ UNCHANGED webhookVars
    /\ UNCHANGED raceVars

NextLookup == GetIpGeolocation

SpecLookup == InitLookup /\ [][NextLookup]_vars

\* the keys of the normalized record
NormalizedKeys ==
    {"query", "status", "continent", "continentCode", "country", "countryCode",
     "region", "regionName", "city", "district", "zip", "lat", "lon", "isp", "org",
     "as", "asname", "reverse", "mobile", "proxy", "hosting"}

\* ip-api.com raised or reported a status that is not success
PrimaryFailed ==
    \/ call.primary.kind = "raises"
    \/ "status" \notin DOMAIN call.primary.data
    \/ call.primary.data.status # "success"

\* ipinfo.io raised or answered an error
SecondaryFailed ==
    \/ call.secondary.kind = "raises"
    \/ "error" \in DOMAIN call.secondary.data

CheckWithProbe(verified, unverified) ==
    check_single_target(call.domain, call.ip, DEFAULT_SSL_PORT,
                        [call.world EXCEPT !.verified = verified, !.unverified = unverified],
                        ProbeNow)

\* the check of the call in a world that differs in the answers of the
\* fingerprinter
CheckWithFingerprint(https, http, banner) ==
    check_single_target(call.domain, call.ip, DEFAULT_SSL_PORT,
                        [call.world EXCEPT !.https = https, !.http = http, !.banner = banner],
                        ProbeNow)

\* the check of the call in a world that differs in the answer of the
\* geolocation
CheckWithGeo(geo) ==
    check_single_target(call.domain, call.ip, DEFAULT_SSL_PORT,
                        [call.world EXCEPT !.geo = geo], ProbeNow)

\* the call ended with a successful CheckResult
CheckSucceeded == call.done /\ call.result.status = STATUS_SUCCESS /\ call.result.data # << >>

\* sslStatus does not change with the answers of fingerprinter and
\* geolocation, ipStatus does not change with those of probe and fingerprinter
SslAndIpStatusIndependent ==
    /\ \A https \in HeaderAnswers, http \in HeaderAnswers, banner \in BannerAnswers :
          /\ CheckWithFingerprint(https, http, banner).data[1].sslStatus
                = call.result.data[1].sslStatus
          /\ CheckWithFingerprint(https, http, banner).data[1].ipStatus
                = call.result.data[1].ipStatus
    /\ \A geo \in GeoAnswers :
          /\ CheckWithGeo(geo).data[1].sslStatus = call.result.data[1].sslStatus
          /\ CheckWithGeo(geo).data[1].serverStatus = call.result.data[1].serverStatus
    /\ \A verified \in TargetVerified, unverified \in TargetUnverified :
          CheckWithProbe(verified, unverified).data[1].ipStatus = call.result.data[1].ipStatus

\* C34 as stated: in a successful CheckResult sslStatus depends on the probe
\* only, serverStatus on the fingerprinter only and ipStatus on the
\* geolocation only: with the answers of the fingerprinter fixed, serverStatus
\* is the same whatever the probe answers.
C34_StatusTagsIndependent ==
    CheckSucceeded =>
        /\ SslAndIpStatusIndependent
        /\ \A verified \in TargetVerified, unverified \in TargetUnverified :
              CheckWithProbe(verified, unverified).data[1].serverStatus
                 = call.result.data[1].serverStatus

\* C34 amended: in a successful CheckResult sslStatus depends on the probe
\* only and ipStatus on the geolocation only; serverStatus is success exactly
\* when the fingerprinter returned something other than "Unknown", whatever
\* the probe answers, and for "Unknown" it is warning when the probe failed
\* and error when the probe succeeded.
C34_ServerStatusWarnsOnProbeFailure ==
    CheckSucceeded =>
        /\ SslAndIpStatusIndependent
        /\ (call.result.data[1].serverStatus = STATUS_SUCCESS)
              <=> (call.result.data[1].server # UNKNOWN_SERVER)
        /\ \A verified \in TargetVerified, unverified \in TargetUnverified :
              (CheckWithProbe(verified, unverified).data[1].serverStatus = STATUS_SUCCESS)
                 <=> (call.result.data[1].serverStatus = STATUS_SUCCESS)
        /\ call.result.data[1].server = UNKNOWN_SERVER =>
              call.result.data[1].serverStatus =
                 IF call.result.data[1].sslStatus = STATUS_ERROR THEN STATUS_WARNING
                 ELSE STATUS_ERROR

\* a check whose probe failed and whose fingerprinter found nothing reported
\* serverStatus warning
C34_Witness ==
    /\ CheckSucceeded
    /\ call.result.data[1].server = UNKNOWN_SERVER
    /\ call.result.data[1].sslStatus = STATUS_ERROR
    /\ call.result.data[1].serverStatus = STATUS_WARNING

(***************************************************************************)
(* The life of alerts: create_alert, PATCH /api/alerts/{id}/read and       *)
(* PATCH /api/alerts/{id}/resolve on one table, with the clock advancing.  *)
(***************************************************************************)
MaxLifeRows == 3
MaxLifeTime == 25

\* hours the clock advances in one step: to the edge of the window or past it
LifeTicks == {24, 25}

\* the owners of the alerts
LifeUsers == {1}

\* what check_certificate_expiry hands to create_alert on two days
LifeFindings ==
    {Finding("expiring_soon", "medium", Msg("SSL certificate expiring in {} days", <<"8">>), 8),
     Finding("expiring_soon", "high", Msg("SSL certificate expiring in {} days", <<"7">>), 7)}

\* the last operation: a create_alert with its arguments and result, or another
LifeCall(op, user_id, alert_id, finding, existing) ==
    [op |-> op, user_id |-> user_id, alert_id |-> alert_id, finding |-> finding,
     existing |-> existing]

InitLife ==
    /\ now = 0
    /\ alerts = << >>
    /\ ssl_checks = << >>
    /\ monitors = << >>
    /\ alert_configs = << >>
    /\ posts = << >>
    /\ ret = Ret("init", 0, "", << >>, << >>, << >>)
    /\ call = LifeCall("init", 0, 0, NoFinding, FALSE)
    /\ WebhookIdle
    /\ ExpiryIdle
    /\ RaceIdle

\* create_alert(db, user_id, None, domain, alert_type, severity, message)
CreateAlert ==
    \E user_id \in LifeUsers, f \in LifeFindings, pick \in 0..Len(alerts) :
        /\ FirstOk(alerts, now, user_id, "example.com", f.alert_type, pick)
        /\ pick = 0 => Len(alerts) < MaxLifeRows
        /\ LET r == create_alert(alerts, now, user_id, "example.com", f.alert_type,
                                 f.severity, f.message, pick) IN
           /\ alerts' = r.tbl
           /\ call' = LifeCall("create_alert", user_id, r.id, f, r.existing)
        /\ UNCHANGED << now, ssl_checks, monitors, alert_configs, posts, ret, ex >>
        /\ UNCHANGED webhookVars
        /\ UNCHANGED raceVars

\* PATCH /api/alerts/{alert_id}/read
ReadAlert ==
    \E user_id \in LifeUsers, alert_id \in 1..MaxLifeRows :
        /\ alerts' = mark_alert_read(ssl_checks, monitors, alerts, user_id, alert_id).alerts
        /\ call' = LifeCall("other", 0, 0, NoFinding, FALSE)
        /\ UNCHANGED << now, ssl_checks, monitors, alert_configs, posts, ret, ex >>
        /\ UNCHANGED webhookVars
        /\ UNCHANGED raceVars

\* PATCH /api/alerts/{alert_id}/resolve
ResolveAlertOfLife ==
    \E user_id \in LifeUsers, alert_id \in 1..MaxLifeRows :
        /\ alerts' = mark_alert_resolved(ssl_checks, monitors, alerts, user_id, alert_id,
                                         now).alerts
        /\ call' = LifeCall("other", 0, 0, NoFinding, FALSE)
        /\ UNCHANGED << now, ssl_checks, monitors, alert_configs, posts, ret, ex >>
        /\ UNCHANGED webhookVars
        /\ UNCHANGED raceVars

\* datetime.utcnow() moves on between two requests
LifeTick ==
    \E dt \in LifeTicks :
        /\ now + dt <= MaxLifeTime
        /\ now' = now + dt
        /\ call' = LifeCall("other", 0, 0, NoFinding, FALSE)
        /\ UNCHANGED << alerts, ssl_checks, monitors, alert_configs, posts, ret, ex >>
        /\ UNCHANGED webhookVars
        /\ UNCHANGED raceVars

NextLife == CreateAlert \/ ReadAlert \/ ResolveAlertOfLife \/ LifeTick

SpecLife == InitLife /\ [][NextLife]_vars

\* the positions of the rows of tbl with that id
PositionsOfId(tbl, id) == {i \in 1..Len(tbl) : tbl[i].id = id}

\* C35: when create_alert deduplicates onto an existing alert it changes only
\* the message and created_at of that alert: id, owner, domain, alert_type,
\* severity, is_read, is_resolved and resolved_at keep their values, also when
\* the finding has another severity or the alert was marked read, and no other
\* row changes.
C35_DedupChangesMessageAndTimeOnly ==
    [][ (call'.op = "create_alert" /\ call'.existing) =>
          /\ Len(alerts') = Len(alerts)
          /\ PositionsOfId(alerts, call'.alert_id) # {}
          /\ \A i \in 1..Len(alerts) :
                IF alerts[i].id = call'.alert_id
                THEN /\ alerts'[i].id = alerts[i].id
                     /\ alerts'[i].user_id = alerts[i].user_id
                     /\ alerts'[i].domain = alerts[i].domain
                     /\ alerts'[i].alert_type = alerts[i].alert_type
                     /\ alerts'[i].severity = alerts[i].severity
                     /\ alerts'[i].is_read = alerts[i].is_read
                     /\ alerts'[i].is_resolved = alerts[i].is_resolved
                     /\ alerts'[i].resolved_at = alerts[i].resolved_at
                     /\ alerts'[i].message = call'.finding.message
                     /\ alerts'[i].created_at = now
                ELSE alerts'[i] = alerts[i] ]_vars

\* create_alert has just deduplicated a finding of severity high onto an
\* alert that was marked read and is still of severity medium
C35_Witness ==
    /\ call.op = "create_alert"
    /\ call.existing
    /\ call.finding.severity = "high"
    /\ \E i \in 1..Len(alerts) :
          /\ alerts[i].id = call.alert_id
          /\ alerts[i].severity = "medium"
          /\ alerts[i].is_read
          /\ alerts[i].message = call.finding.message

\* the unresolved rows of the key of the finding created in the last 24 hours
LiveMatches(tbl, t, user_id, alert_type) ==
    {i \in 1..Len(tbl) : /\ tbl[i].user_id = user_id
                         /\ tbl[i].domain = "example.com"
                         /\ tbl[i].alert_type = alert_type
                         /\ ~ tbl[i].is_resolved
                         /\ t - tbl[i].created_at <= 24}

\* C36: create_alert never modifies a resolved alert; when the only alerts of
\* the owner, domain and type are resolved ones, even inside the 24 hours, or
\* older than 24 hours, it inserts a new unresolved alert and leaves every
\* earlier row, the resolved and the older ones, as it was.
C36_ResolvedAndOldAlertsUntouched ==
    [][ call'.op = "create_alert" =>
          /\ \A i \in 1..Len(alerts) : alerts[i].is_resolved => alerts'[i] = alerts[i]
          /\ LiveMatches(alerts, now, call'.user_id, call'.finding.alert_type) = {} =>
                /\ ~ call'.existing
                /\ Len(alerts') = Len(alerts) + 1
                /\ \A i \in 1..Len(alerts) : alerts'[i] = alerts[i]
                /\ LET row == alerts'[Len(alerts')] IN
                      /\ row.id = call'.alert_id
                      /\ \A i \in 1..Len(alerts) : alerts[i].id # row.id
                      /\ row.user_id = call'.user_id
                      /\ row.alert_type = call'.finding.alert_type
                      /\ row.message = call'.finding.message
                      /\ ~ row.is_resolved
                      /\ row.resolved_at = << >>
                      /\ row.created_at = now ]_vars

\* create_alert has just inserted an alert although a resolved alert of the
\* same owner and type, created within the last 24 hours, exists, and an older
\* unresolved one too
C36_Witness ==
    /\ call.op = "create_alert"
    /\ ~ call.existing
    /\ \E i \in 1..Len(alerts) :
          /\ alerts[i].user_id = call.user_id
          /\ alerts[i].alert_type = call.finding.alert_type
          /\ alerts[i].is_resolved
          /\ now - alerts[i].created_at <= 24
    /\ \E i \in 1..Len(alerts) :
          /\ alerts[i].user_id = call.user_id
          /\ alerts[i].alert_type = call.finding.alert_type
          /\ ~ alerts[i].is_resolved
          /\ now - alerts[i].created_at > 24

(***************************************************************************)
(* The connections of a webhook POST.  requests.post is called with its    *)
(* defaults (allow_redirects is True): a name is resolved again when the   *)
(* connection is made, and a redirect answer is followed with a new        *)
(* connection to the host of its Location.                                 *)
(***************************************************************************)
MaxHops == 2

RedirectCodes == {301, 302, 303, 307, 308}

\* what the network does at one connection: the address the resolver gives
\* for a name at that moment (NoHost: socket.gaierror), the status of the
\* answer and its Location header
NetworkHop(resolved, status, location) ==
    [resolved |-> resolved, status |-> status, location |-> location]

\* the method of the request that follows a redirect (requests keeps the POST
\* on 307 and 308 and turns it into a GET on 301, 302 and 303)
rebuild_method(method, status) ==
    IF status \in {307, 308} THEN method ELSE "GET"

\* the address a connection to the host goes to
ConnectAddress(host, hop) ==
    IF ip_address_ok(host) THEN host ELSE hop.resolved

\* the connections requests makes for a request of that method to the URL u,
\* the network behaving as hops says; no hop left: nothing answers any more
RECURSIVE Connections(_, _, _)
Connections(u, method, hops) ==
    IF hops = << >> THEN << >>
    ELSE LET hop == Head(hops)
             addr == ConnectAddress(u.host, hop) IN
         IF addr.kind = "none" THEN << >>
         ELSE IF hop.status \in RedirectCodes /\ hop.location.kind = "url"
         THEN <<[addr |-> addr, method |-> method, status |-> hop.status]>>
              \o Connections(hop.location, rebuild_method(method, hop.status), Tail(hops))
         ELSE <<[addr |-> addr, method |-> method, status |-> hop.status]>>

\* the outcome of requests.post: the answer of the last connection
OutcomeOfConnections(conns, hops) ==
    IF conns = << >> THEN Raises("ConnectionError")
    ELSE IF Len(conns) = Len(hops) /\ conns[Len(conns)].status \in RedirectCodes
              /\ hops[Len(hops)].location.kind = "url"
    THEN Raises("ConnectionError")
    ELSE Response(conns[Len(conns)].status)

SendUrls ==
    {Url("https", Ip4(8, 8, 8, 8)), Url("http", Ip6(8193, 18528, 34952)),
     Url("https", Ip4(10, 0, 0, 5)), Url("https", Name("hooks.slack.com"))}

SendDnsAnswers ==
    {[failed |-> TRUE, addrs |-> << >>], [failed |-> FALSE, addrs |-> <<Ip4(8, 8, 8, 8)>>]}

SendLocations ==
    {NoUrl, Url("https", Ip4(1, 1, 1, 1)), Url("http", Ip4(10, 0, 0, 5)),
     Url("http", Ip4(169, 254, 1, 1)), Url("https", Name("hooks.slack.com"))}

SendStatuses == {200, 302, 307, 500}

SendResolved == {NoHost, Ip4(8, 8, 8, 8), Ip4(192, 168, 1, 1)}

NetworkHops ==
    {NetworkHop(r, st, l) : r \in SendResolved, st \in SendStatuses, l \in SendLocations}

HopSeqs == UNION {[1..n -> NetworkHops] : n \in 1..MaxHops}

SendCall(done, hops, connections, res) ==
    [done |-> done, hops |-> hops, connections |-> connections, res |-> res]

InitSend ==
    /\ webhook_url \in SendUrls
    /\ dns \in IF webhook_url.host.kind = "name" THEN SendDnsAnswers
               ELSE {[failed |-> TRUE, addrs |-> << >>]}
    /\ wh = WhInit
    /\ call = SendCall(FALSE, << >>, << >>, NoResult)
    /\ now = 0
    /\ alerts = << >>
    /\ ssl_checks = << >>
    /\ monitors = << >>
    /\ alert_configs = << >>
    /\ posts = << >>
    /\ ret = Ret("init", 0, "", << >>, << >>, << >>)
    /\ ExpiryIdle
    /\ RaceIdle

\* send_webhook_notification_detailed(webhook_url, alert_data) with the
\* connections its requests.post makes
SendOverNetwork ==
    \E hops \in HopSeqs :
        LET conns == Connections(webhook_url, "POST", hops)
            r == send_webhook_notification_detailed(webhook_url, dns,
                                                    OutcomeOfConnections(conns, hops)) IN
        /\ ~ call.done
        /\ call' = SendCall(TRUE, IF r.posted THEN hops ELSE << >>,
                            IF r.posted THEN conns ELSE << >>, r)
        /\ UNCHANGED << now, alerts, ssl_checks, monitors, alert_configs, posts, ret, ex >>
        /\ UNCHANGED webhookVars
        /\ UNCHANGED raceVars

NextSend == SendOverNetwork

SpecSend == InitSend /\ [][NextSend]_vars

\* C37: every address send_webhook_notification_detailed connects to has
\* passed the private/loopback/link-local/reserved/multicast check, also when
\* a name resolves differently at send time or the endpoint answers with a
\* redirect.
C37_ConnectsToCheckedAddressesOnly ==
    call.done =>
        \A i \in 1..Len(call.connections) : ~ _is_private_ip(call.connections[i].addr)

(***************************************************************************)
(* ConnectionManager: the set of active WebSocket connections and one      *)
(* broadcast coroutine.  A coroutine runs without interruption from one    *)
(* await to the next, so broadcast takes one step up to its first          *)
(* "await connection.send_json" and one step from each send to the next;   *)
(* connect and disconnect run in between.  The set iterator of the for     *)
(* loop remembers the size of the set at its creation and raises           *)
(* RuntimeError ("Set changed size during iteration") when it is asked for *)
(* the next element of a set of another size.                              *)
(***************************************************************************)
MaxSockets == 3

\* the WebSocket objects; an object is connected at most once
Sockets == 1..MaxSockets

\* active: self.active_connections; seen: the objects connected so far;
\* bpc: where broadcast is ("idle", "sending", "done": it has just returned,
\* "raised": it has just ended with RuntimeError); si_used: the size the
\* iterator remembers; remaining: the elements the iterator has still to
\* yield; current: the connection whose send_json is awaited; disconnected:
\* broadcast's local set; delivered: the connections whose send succeeded
Manager(active, seen, bpc, si_used, remaining, current, disconnected, delivered) ==
    [active |-> active, seen |-> seen, bpc |-> bpc, si_used |-> si_used,
     remaining |-> remaining, current |-> current, disconnected |-> disconnected,
     delivered |-> delivered]

InitManager ==
    /\ call = Manager({}, {}, "idle", 0, {}, 0, {}, {})
    /\ now = 0
    /\ alerts = << >>
    /\ ssl_checks = << >>
    /\ monitors = << >>
    /\ alert_configs = << >>
    /\ posts = << >>
    /\ ret = Ret("init", 0, "", << >>, << >>, << >>)
    /\ WebhookIdle
    /\ ExpiryIdle
    /\ RaceIdle

\* the for loop of broadcast asks its iterator for the next connection and
\* runs up to the next await, or through the clean-up loop to the end
broadcast_next(m) ==
    IF Cardinality(m.active) # m.si_used
    THEN {[m EXCEPT !.bpc = "raised", !.current = 0]}
    ELSE IF m.remaining = {}
    THEN {[m EXCEPT !.bpc = "done", !.current = 0, !.active = @ \ m.disconnected]}
    ELSE {[m EXCEPT !.bpc = "sending", !.current = c, !.remaining = @ \ {c}] :
             c \in m.remaining}

\* the state of the manager once a broadcast that ended has been forgotten
Forgotten(m) ==
    IF m.bpc \in {"done", "raised"}
    THEN [m EXCEPT !.bpc = "idle", !.si_used = 0, !.remaining = {}, !.current = 0,
                   !.disconnected = {}, !.delivered = {}]
    ELSE m

\* manager.connect(websocket): after "await websocket.accept()" the object is
\* added; an iterator at work yields it later or has passed its place
ManagerConnect ==
    \E ws \in Sockets \ call.seen, ahead \in BOOLEAN :
        /\ ahead => call.bpc = "sending"
        /\ call' = [Forgotten(call) EXCEPT
                       !.active = @ \cup {ws},
                       !.seen = @ \cup {ws},
                       !.remaining = IF ahead THEN @ \cup {ws} ELSE @]
        /\ UNCHANGED << now, alerts, ssl_checks, monitors, alert_configs, posts, ret, ex >>
        /\ UNCHANGED webhookVars
        /\ UNCHANGED raceVars

\* manager.disconnect(websocket), called by websocket_endpoint when the
\* client has gone
ManagerDisconnect ==
    \E ws \in call.active :
        /\ call' = [Forgotten(call) EXCEPT !.active = @ \ {ws}, !.remaining = @ \ {ws}]
        /\ UNCHANGED << now, alerts, ssl_checks, monitors, alert_configs, posts, ret, ex >>
        /\ UNCHANGED webhookVars
        /\ UNCHANGED raceVars

\* manager.broadcast(message) up to its first await
BroadcastStart ==
    /\ call.bpc # "sending"
    /\ call' \in broadcast_next([call EXCEPT !.si_used = Cardinality(call.active),
                                             !.remaining = call.active,
                                             !.current = 0,
                                             !.disconnected = {},
                                             !.delivered = {}])
    /\ UNCHANGED << now, alerts, ssl_checks, monitors, alert_configs, posts, ret, ex >>
    /\ UNCHANGED webhookVars
    /\ UNCHANGED raceVars

\* the awaited send_json returns or raises, and broadcast runs on
BroadcastResume ==
    \E sent \in BOOLEAN :
        /\ call.bpc = "sending"
        /\ call' \in broadcast_next(
                        IF sent THEN [call EXCEPT !.delivered = @ \cup {call.current}]
                        ELSE [call EXCEPT !.disconnected = @ \cup {call.current}])
        /\ UNCHANGED << now, alerts, ssl_checks, monitors, alert_configs, posts, ret, ex >>
        /\ UNCHANGED webhookVars
        /\ UNCHANGED raceVars

NextManager == ManagerConnect \/ ManagerDisconnect \/ BroadcastStart \/ BroadcastResume

SpecManager == InitManager /\ [][NextManager]_vars

\* C39: under every interleaving of connect, disconnect and broadcast,
\* broadcast ends without error, and when it has ended every connection whose
\* send failed is out of the active set while every connection whose send
\* succeeded is still in it.
C39_BroadcastUndisturbed ==
    /\ call.bpc # "raised"
    /\ call.bpc = "done" =>
          /\ call.disconnected \cap call.active = {}
          /\ call.delivered \subseteq call.active

\* C40: an alert of type expired is returned only when alert_cert_expired is
\* on (and the day count is negative, where it takes the place of every
\* threshold); with alert_cert_expired off a negative day count falls through
\* to the thresholds and gives expiring_soon: critical when alert_1_day is on,
\* else high when alert_7_days is on, else medium when alert_30_days is on,
\* else nothing.  The check returns one finding, never both types.
C40_ExpiredOnlyWhenToggled ==
    ( /\ ex.done
      /\ DayCountOf(ex.data, now) # << >> )
    => LET d == DayCountOf(ex.data, now)[1]
           cfg == ex.cfg IN
       /\ (ex.out.some /\ ex.out.alert_type = "expired") =>
             (cfg.alert_cert_expired /\ d < 0)
       /\ (d < 0 /\ cfg.alert_cert_expired) =>
             (ex.out.some /\ ex.out.alert_type = "expired" /\ ex.out.severity = "critical")
       /\ (d < 0 /\ ~ cfg.alert_cert_expired) =>
             /\ ex.out.some <=> (cfg.alert_1_day \/ cfg.alert_7_days \/ cfg.alert_30_days)
             /\ ex.out.some =>
                   /\ ex.out.alert_type = "expiring_soon"
                   /\ ex.out.days_remaining = d
                   /\ ex.out.severity =
                         IF cfg.alert_1_day THEN "critical"
                         ELSE IF cfg.alert_7_days THEN "high"
                         ELSE "medium"

\* the rule has run on a certificate that expired, with alert_cert_expired
\* and alert_1_day off and alert_7_days on, and reported expiring_soon, high
C40_Witness ==
    /\ ex.done
    /\ DayCountOf(ex.data, now) # << >>
    /\ DayCountOf(ex.data, now)[1] < 0
    /\ ~ ex.cfg.alert_cert_expired
    /\ ~ ex.cfg.alert_1_day
    /\ ex.cfg.alert_7_days
    /\ ex.out.some
    /\ ex.out.alert_type = "expiring_soon"
    /\ ex.out.severity = "high"

====
